---- MODULE Spec2Model ----
(***************************************************************************)
(* A model of the numerical core of spectraview: the SPC binary decoder,   *)
(* the LTTB decimator, the nearest-sample search, the signal-processing    *)
(* transforms and the peak detector.                                       *)
(*                                                                         *)
(* Every operation of the core is a function of its arguments (parseSpc    *)
(* and the curve algebra also advance a module-level idCounter).  Each specification below    *)
(* draws the arguments of one call in its initial state (arg), and its     *)
(* action performs the call and stores what the call produced (res).       *)
(*                                                                         *)
(* Arrays are 0-based in the source and 1-based here: At(a, i) reads the   *)
(* element the source calls a[i].                                          *)
(***************************************************************************)
EXTENDS Integers, Sequences, FiniteSets, TLC

VARIABLES op, arg, res, idCounter, algebraIdCounter, csvIdCounter, converter, now, calls,
          heap, hist, loader, region, jcamp

vars ==
  <<op, arg, res, idCounter, algebraIdCounter, csvIdCounter, converter, now, calls, heap,
    hist, loader, region, jcamp>>

\* the state outside parseSpc and the comparison module: idCounter of the csv
\* module, the cached jcampconverter lookup, the clock Date.now() reads, the
\* calls the process has made so far, and the array objects that exist
\* (heap[r] is the content of the array with reference r)
others == <<csvIdCounter, converter, now, calls, heap, hist, loader, region, jcamp>>

\* the hooks (useHistory, useSpectrumData, useRegionSelect) and the
\* parseJcamp calls in flight
hooks == <<hist, loader, region, jcamp>>

\* no hook is mounted
NoHook == [mounted |-> FALSE]

NoHooks == hist = NoHook /\ loader = NoHook /\ region = NoHook /\ jcamp = NoHook

InitOthers ==
  /\ csvIdCounter = 0 /\ converter = "unchecked" /\ now = 0 /\ calls = <<>> /\ heap = <<>>
  /\ NoHooks

\* res before the call has been made
NoRes == [status |-> "pending"]

Pending == res = NoRes

At(a, i) == a[i + 1]

Abs(v) == IF v < 0 THEN -v ELSE v

Min2(a, b) == IF a < b THEN a ELSE b

Max2(a, b) == IF a > b THEN a ELSE b

(***************************************************************************)
(* Numbers.  A JavaScript number is an IEEE-754 binary float: every        *)
(* arithmetic operation returns the exact result rounded to the nearest    *)
(* value with a fixed number of significant bits, ties to even.  The model *)
(* keeps that rule with MantBits significant bits (binary64 has 53) and no *)
(* exponent limit.  A number is a reduced fraction <<n, d>>, d > 0.        *)
(***************************************************************************)
MantBits == 7

RECURSIVE Pow2(_)
Pow2(k) == IF k <= 0 THEN 1 ELSE 2 * Pow2(k - 1)

RECURSIVE Gcd(_, _)
Gcd(a, b) == IF b = 0 THEN a ELSE Gcd(b, a % b)

Norm(n, d) ==
  LET g == Gcd(Abs(n), d) IN
  IF n = 0 THEN <<0, 1>> ELSE <<n \div g, d \div g>>

\* nearest integer to num/den (num >= 0, den > 0), ties to even
RoundHalfEven(num, den) ==
  LET q == num \div den
      r == num % den
  IN IF 2 * r < den THEN q
     ELSE IF 2 * r > den THEN q + 1
     ELSE IF q % 2 = 0 THEN q ELSE q + 1

\* num/den = (a/d) * down/up with 2^(MantBits-1) <= num/den < 2^MantBits
RECURSIVE RoundScaled(_, _, _, _)
RoundScaled(num, den, up, down) ==
  IF num >= Pow2(MantBits) * den
    THEN RoundScaled(num, 2 * den, 2 * up, down)
  ELSE IF num < Pow2(MantBits - 1) * den
    THEN RoundScaled(2 * num, den, up, 2 * down)
  ELSE <<RoundHalfEven(num, den) * up, down>>

\* the float nearest to the rational n/d (d > 0)
Fl(n, d) ==
  IF n = 0 THEN <<0, 1>>
  ELSE LET m == RoundScaled(Abs(n), d, 1, 1)
       IN Norm((IF n < 0 THEN -1 ELSE 1) * m[1], m[2])

Zero == <<0, 1>>

FromInt(v) == Fl(v, 1)

FAdd(a, b) == Fl(a[1] * b[2] + b[1] * a[2], a[2] * b[2])

FSub(a, b) == Fl(a[1] * b[2] - b[1] * a[2], a[2] * b[2])

FMul(a, b) == Fl(a[1] * b[1], a[2] * b[2])

\* b # 0
FDiv(a, b) ==
  IF b[1] < 0 THEN Fl(-(a[1] * b[2]), a[2] * (-b[1]))
  ELSE Fl(a[1] * b[2], a[2] * b[1])

FAbs(a) == <<Abs(a[1]), a[2]>>

FLess(a, b) == a[1] * b[2] < b[1] * a[2]

FLeq(a, b) == a[1] * b[2] <= b[1] * a[2]

FFloor(a) == a[1] \div a[2]

\* num/den scaled by a power of 4 into [4^(MantBits-1), 4^MantBits), and the
\* nearest integer to its square root, ties to even
RECURSIVE SqrtScaled(_, _, _, _)
SqrtScaled(num, den, up, down) ==
  IF num >= Pow2(2 * MantBits) * den
    THEN SqrtScaled(num, 4 * den, 2 * up, down)
  ELSE IF num < Pow2(2 * MantBits - 2) * den
    THEN SqrtScaled(4 * num, den, up, 2 * down)
  ELSE
    LET s0 == CHOOSE s \in Pow2(MantBits - 1)..Pow2(MantBits) - 1 :
                s * s * den <= num /\ num < (s + 1) * (s + 1) * den
        mid == (2 * s0 + 1) * (2 * s0 + 1) * den
        s == IF 4 * num < mid THEN s0
             ELSE IF 4 * num > mid THEN s0 + 1
             ELSE IF s0 % 2 = 0 THEN s0 ELSE s0 + 1
    IN <<s * up, down>>

\* Math.sqrt: the float nearest to the square root of a (a >= 0)
FSqrt(a) ==
  IF a[1] = 0 THEN <<0, 1>>
  ELSE LET m == SqrtScaled(a[1], a[2], 1, 1) IN Norm(m[1], m[2])

\* sum += v[k] for k from i on
RECURSIVE SumFrom(_, _, _)
SumFrom(v, i, sum) == IF i > Len(v) THEN sum ELSE SumFrom(v, i + 1, FAdd(sum, v[i]))

\* new Float64Array(n): n cells holding 0
Zeros(n) == [i \in 1..n |-> Zero]

\* new Float64Array(y): a copy of the integer samples y
CopyOf(y) == [i \in 1..Len(y) |-> FromInt(y[i])]

(***************************************************************************)
(* parseSpc (src/src/parsers/spc.ts)                                       *)
(*                                                                         *)
(* A buffer is its byte length, the header fields parseSpc reads and, for  *)
(* the k-th sub-header it meets, the fields of that sub-header.  A sample  *)
(* stored in the buffer is nonzero (the float nearest to its byte offset), *)
(* so that a 0 in a result is a cell that no read wrote.                   *)
(***************************************************************************)
TSPREC == 1

TMULTI == 4

TXVALS == 128

minSize == 512

SubHeaderSize == 32

MaxBody == 72

MaxPoints == 2

MaxSpectra == 2

HasFlag(flags, bit) == (flags \div bit) % 2 = 1

\* line 112
SupportedVersion(v) == v = 75 \/ v = 77

\* the size check accepting a buffer one byte short of the header
TooSmallOffByOne(len) == len < minSize - 1

\* line 103
TooSmall(len) == len < minSize

Float32At(off) == FromInt(off)

Int16At(off) == FromInt(off)

\* the grid with the range divided by the number of points
SharedXStepOverPoints(npoints, firstX, lastX) ==
  LET step == FDiv(FSub(FromInt(lastX), FromInt(firstX)), FromInt(npoints))
  IN [k \in 1..npoints |-> FAdd(FromInt(firstX), FMul(FromInt(k - 1), step))]

\* lines 141-147: the evenly spaced x of the main header
SharedX(npoints, firstX, lastX) ==
  LET step == IF npoints > 1
              THEN FDiv(FSub(FromInt(lastX), FromInt(firstX)), FromInt(npoints - 1))
              ELSE Zero
  IN [k \in 1..npoints |-> FAdd(FromInt(firstX), FMul(FromInt(k - 1), step))]

\* lines 155-160: the x block of a single-curve file, read without a bounds
\* check: DataView.getFloat32 throws a RangeError past the end of the buffer
RECURSIVE ReadFileX(_, _, _, _, _)
ReadFileX(i, n, off, len, a) ==
  IF i >= n THEN [arr |-> a, off |-> off, err |-> FALSE]
  ELSE IF off + 4 > len THEN [arr |-> a, off |-> off, err |-> TRUE]
  ELSE ReadFileX(i + 1, n, off + 4, len, [a EXCEPT ![i + 1] = Float32At(off)])

\* lines 182-186, 205-209, 211-215: a bounds-checked read loop over an array
\* allocated with n cells; width is the sample size in bytes
RECURSIVE ReadChecked(_, _, _, _, _, _)
ReadChecked(i, n, off, width, len, a) ==
  IF i >= n THEN [arr |-> a, off |-> off]
  ELSE IF off + width > len THEN [arr |-> a, off |-> off]
  ELSE ReadChecked(i + 1, n, off + width, width, len,
                   [a EXCEPT ![i + 1] = IF width = 2 THEN Int16At(off) ELSE Float32At(off)])

\* line 176: the sub-header's count, or the main header's when it is 0
SubNpoints(subCount, npoints) == IF subCount # 0 THEN subCount ELSE npoints

\* lines 187-196: x of a sub-file that stores no x values
SubFileX(sharedX, sub, subN) ==
  IF sharedX # <<>> THEN sharedX
  ELSE LET step == IF subN > 1
                   THEN FDiv(FSub(FromInt(sub.endX), FromInt(sub.startX)), FromInt(subN - 1))
                   ELSE Zero
       IN [k \in 1..subN |-> FAdd(FromInt(sub.startX), FMul(FromInt(k - 1), step))]

\* line 162
CurveCount(isMulti, numSpectra) == IF isMulti THEN numSpectra ELSE 1

\* lines 164-233: the loop over the curves, from curve s on
RECURSIVE ReadSpectra(_, _, _, _, _, _, _)
ReadSpectra(buf, s, count, off, sharedX, fileX, acc) ==
  LET isMulti == HasFlag(buf.flags, TMULTI)
      hasXValues == HasFlag(buf.flags, TXVALS)
      is16Bit == HasFlag(buf.flags, TSPREC)
  IN
  IF s >= count THEN acc
  ELSE IF isMulti /\ off + SubHeaderSize > buf.len THEN acc
  ELSE
    LET sub == IF isMulti THEN At(buf.subs, s) ELSE [n |-> 0, startX |-> 0, endX |-> 0]
        subN == IF isMulti THEN SubNpoints(sub.n, buf.npoints) ELSE buf.npoints
        off1 == IF isMulti THEN off + SubHeaderSize ELSE off
        xr == IF isMulti /\ hasXValues
              THEN ReadChecked(0, subN, off1, 4, buf.len, Zeros(subN))
              ELSE [arr |-> IF isMulti THEN SubFileX(sharedX, sub, subN)
                            ELSE IF hasXValues THEN fileX ELSE sharedX,
                    off |-> off1]
        yr == ReadChecked(0, subN, xr.off, IF is16Bit THEN 2 ELSE 4, buf.len, Zeros(subN))
        spectrum == [id |-> <<"spc", idCounter + Len(acc) + 1>>, index |-> s, x |-> xr.arr, y |-> yr.arr]
    IN ReadSpectra(buf, s + 1, count, yr.off, sharedX, fileX, Append(acc, spectrum))

\* lines 99-240
parseSpc(buf) ==
  IF TooSmall(buf.len) THEN [status |-> "tooSmall", spectra |-> <<>>]
  ELSE IF ~SupportedVersion(buf.version)
    THEN [status |-> "unsupportedVersion", spectra |-> <<>>]
  ELSE
    LET isMulti == HasFlag(buf.flags, TMULTI)
        hasXValues == HasFlag(buf.flags, TXVALS)
        sharedX == IF ~hasXValues /\ buf.npoints > 0
                   THEN SharedX(buf.npoints, buf.firstX, buf.lastX)
                   ELSE <<>>
        fx == IF hasXValues /\ ~isMulti
              THEN ReadFileX(0, buf.npoints, minSize, buf.len, Zeros(buf.npoints))
              ELSE [arr |-> <<>>, off |-> minSize, err |-> FALSE]
    IN
    IF fx.err THEN [status |-> "rangeError", spectra |-> <<>>]
    ELSE
      LET spectra == ReadSpectra(buf, 0, CurveCount(isMulti, buf.numSpectra),
                                 fx.off, sharedX, fx.arr, <<>>)
      IN IF Len(spectra) = 0 THEN [status |-> "noSpectra", spectra |-> <<>>]
         ELSE [status |-> "ok", spectra |-> spectra]

\* the buffers of the model
Flags == {0, 1, 4, 5, 128, 129, 132, 133}

Versions == {75, 77, 0}

\* point counts of the model: none, one, the largest
PointCounts == {0, 1, MaxPoints}

Lengths == {0, minSize - 1} \cup {minSize + k : k \in 0..MaxBody}

SubHeaders == [n : PointCounts, startX : {0}, endX : {1}]

SubSeqs(k) == [1..k -> SubHeaders]

Buffer(l, f, v, p, c, ss) ==
  [len |-> l, flags |-> f, version |-> v, npoints |-> p, firstX |-> 0, lastX |-> 3,
   numSpectra |-> c, subs |-> ss]

\* the sub-headers parseSpc can reach: those of a multi-curve file whose
\* header is accepted
SubsOf(l, f, v, c) ==
  IF HasFlag(f, TMULTI) /\ SupportedVersion(v) /\ ~TooSmall(l) THEN SubSeqs(c) ELSE {<<>>}

\* the x range of the header: ascending, and descending with a first x of
\* the largest exponent of the integers that are all exact
Ranges == {<<0, 3>>, <<Pow2(MantBits), -1>>}

WithRange(buf, r) == [buf EXCEPT !.firstX = r[1], !.lastX = r[2]]

InitSpc ==
  /\ op = "parseSpc"
  /\ \E l \in Lengths, f \in Flags, v \in Versions, p \in PointCounts, c \in 0..MaxSpectra :
       \E ss \in SubsOf(l, f, v, c), r \in Ranges :
         arg = WithRange(Buffer(l, f, v, p, c, ss), r)
  /\ res = NoRes
  /\ idCounter = 0
  /\ algebraIdCounter = 0
  /\ InitOthers

ParseSpc ==
  /\ op = "parseSpc"
  /\ Pending
  /\ res' = parseSpc(arg)
  /\ idCounter' = idCounter + Len(res'.spectra)
  /\ UNCHANGED <<op, arg, algebraIdCounter, others>>

NextSpc == ParseSpc

SpecSpc == InitSpc /\ [][NextSpc]_vars

(***************************************************************************)
(* lttbDownsample (src/unnamed/part_004)                                   *)
(*                                                                         *)
(* x and y are integer samples; xScale and yScale are linear maps          *)
(* v |-> a*v + b.  A point of the result is [px, py, index].               *)
(***************************************************************************)
LttbLen == 6

MaxTarget == 4

ApplyScale(sc, v) == FAdd(FMul(FromInt(sc.a), FromInt(v)), FromInt(sc.b))

\* lines 52-56, 63-67, 134-138, 143-147
LttbPoint(a, i) ==
  [px |-> ApplyScale(a.xScale, At(a.x, i)), py |-> ApplyScale(a.yScale, At(a.y, i)), index |-> i]

\* lines 49-59: the window as it is
RECURSIVE LttbAll(_, _, _)
LttbAll(a, i, acc) ==
  IF i >= a.endIdx THEN acc ELSE LttbAll(a, i + 1, Append(acc, LttbPoint(a, i)))

\* lines 77-81, 85-88: startIdx + 1 + min(floor(k * bucketSize), n - 2)
BucketEdge(startIdx, k, bucketSize, n) ==
  startIdx + 1 + Min2(FFloor(FMul(FromInt(k), bucketSize)), n - 2)

\* lines 97-103: the sums of the pixel coordinates over [i, last)
RECURSIVE SumPx(_, _, _, _)
SumPx(a, i, last, acc) ==
  IF i >= last THEN acc
  ELSE SumPx(a, i + 1, last,
             <<FAdd(acc[1], LttbPoint(a, i).px), FAdd(acc[2], LttbPoint(a, i).py)>>)

\* lines 93-108: the third vertex of the triangle
BucketAverage(a, bucket, bucketCount, nextStart, nextEnd) ==
  IF bucket = bucketCount - 1
  THEN <<LttbPoint(a, a.endIdx - 1).px, LttbPoint(a, a.endIdx - 1).py>>
  ELSE LET sum == SumPx(a, nextStart, nextEnd, <<Zero, Zero>>)
           avgCount == nextEnd - nextStart
       IN IF avgCount > 0
          THEN <<FDiv(sum[1], FromInt(avgCount)), FDiv(sum[2], FromInt(avgCount))>>
          ELSE sum

\* lines 123-126
TriangleArea(prev, avg, pt) ==
  FAbs(FSub(FMul(FSub(prev.px, avg[1]), FSub(pt.py, prev.py)),
            FMul(FSub(prev.px, pt.px), FSub(avg[2], prev.py))))

\* the sample after the bucket
PastBucket(a, i, last, prev, avg, best) == last

\* lines 115-132: the sample of [i, last) with the largest area, the first
\* of equals; best is <<bestIdx, maxArea>>, maxArea = -1 at the start
RECURSIVE BestInBucket(_, _, _, _, _, _)
BestInBucket(a, i, last, prev, avg, best) ==
  IF i >= last THEN best[1]
  ELSE LET area == TriangleArea(prev, avg, LttbPoint(a, i))
       IN BestInBucket(a, i + 1, last, prev, avg,
                       IF FLess(best[2], area) THEN <<i, area>> ELSE best)

\* lines 75-140: the loop over the buckets, from bucket on
RECURSIVE LttbBuckets(_, _, _, _, _)
LttbBuckets(a, bucket, bucketCount, prevSelectedIdx, acc) ==
  IF bucket >= bucketCount THEN acc
  ELSE
    LET n == a.endIdx - a.startIdx
        bucketSize == FDiv(FromInt(n - 2), FromInt(bucketCount))
        bucketStart == a.startIdx + 1 + FFloor(FMul(FromInt(bucket), bucketSize))
        bucketEnd == BucketEdge(a.startIdx, bucket + 1, bucketSize, n)
        nextBucketEnd == BucketEdge(a.startIdx, bucket + 2, bucketSize, n)
        avg == BucketAverage(a, bucket, bucketCount, bucketEnd, nextBucketEnd)
        bestIdx == BestInBucket(a, bucketStart, bucketEnd, LttbPoint(a, prevSelectedIdx),
                                avg, <<bucketStart, FromInt(-1)>>)
    IN LttbBuckets(a, bucket + 1, bucketCount, bestIdx, Append(acc, LttbPoint(a, bestIdx)))

\* one bucket per output point but the first
BucketCountOffByOne(targetCount) == targetCount - 1

\* line 70: the buckets, one per output point but the first and the last
BucketCount(targetCount) == targetCount - 2

\* line 49
FewerThanTarget(n, targetCount) == n <= targetCount

\* lines 37-150
lttbDownsample(a) ==
  LET n == a.endIdx - a.startIdx IN
  IF FewerThanTarget(n, a.targetCount) THEN LttbAll(a, a.startIdx, <<>>)
  ELSE Append(LttbBuckets(a, 0, BucketCount(a.targetCount), a.startIdx, <<LttbPoint(a, a.startIdx)>>),
              LttbPoint(a, a.endIdx - 1))

InitLttb ==
  /\ op = "lttbDownsample"
  /\ \E ys \in [1..LttbLen -> {0, 1}], s \in 0..LttbLen, e \in 0..LttbLen,
        sc \in {[a |-> 1, b |-> 0], [a |-> -1, b |-> 8]}, t \in 0..MaxTarget :
       /\ s <= e
       /\ arg = [x |-> [i \in 1..LttbLen |-> i - 1], y |-> ys, startIdx |-> s, endIdx |-> e,
                 xScale |-> [a |-> 2, b |-> 0], yScale |-> sc, targetCount |-> t]
  /\ res = NoRes
  /\ idCounter = 0
  /\ algebraIdCounter = 0
  /\ InitOthers

LttbDownsample ==
  /\ op = "lttbDownsample"
  /\ Pending
  /\ res' = [status |-> "ok", points |-> lttbDownsample(arg)]
  /\ UNCHANGED <<op, arg, idCounter, algebraIdCounter, others>>

NextLttb == LttbDownsample

SpecLttb == InitLttb /\ [][NextLttb]_vars

\* lttbDownsample on a flat curve with one spike: a window of more than
\* targetCount samples, targetCount >= 3
SpikeLen == 16

SpikeTarget == 13

InitSpike ==
  /\ op = "lttbDownsample"
  /\ \E s \in 0..1, e \in 0..SpikeLen, p \in 0..(SpikeLen - 1), t \in 3..SpikeTarget,
        sc \in {[a |-> 1, b |-> 0], [a |-> -1, b |-> 8]} :
       /\ s <= p /\ p < e
       /\ e - s > t
       /\ arg = [x |-> [i \in 1..SpikeLen |-> i - 1],
                 y |-> [i \in 1..SpikeLen |-> IF i - 1 = p THEN 1 ELSE 0],
                 startIdx |-> s, endIdx |-> e,
                 xScale |-> [a |-> 2, b |-> 0], yScale |-> sc, targetCount |-> t]
  /\ res = NoRes
  /\ idCounter = 0
  /\ algebraIdCounter = 0
  /\ InitOthers

NextSpike == LttbDownsample

SpecSpike == InitSpike /\ [][NextSpike]_vars

(***************************************************************************)
(* binarySearchClosest (src/src/utils/rendering.ts)                        *)
(*                                                                         *)
(* The samples and the target are small integers: their comparisons and    *)
(* differences are exact in floating point.                                *)
(***************************************************************************)
SearchLen == 4

SearchMaxVal == 3

\* line 255: the direction of the sort
Ascending(arr, length) == At(arr, length - 1) >= At(arr, 0)

\* the bracket resolved towards the upper sample on a tie
PickCloserStrict(arr, target, lo, hi) ==
  IF Abs(At(arr, lo) - target) < Abs(At(arr, hi) - target) THEN lo ELSE hi

\* lines 274-276
PickCloser(arr, target, lo, hi) ==
  IF Abs(At(arr, lo) - target) <= Abs(At(arr, hi) - target) THEN lo ELSE hi

\* lines 260-271: the loop, from the bracket [lo, hi]
RECURSIVE Bisect(_, _, _, _, _)
Bisect(arr, target, ascending, lo, hi) ==
  IF ~(lo < hi - 1) THEN <<lo, hi>>
  ELSE LET mid == (lo + hi) \div 2
           midVal == At(arr, mid)
       IN IF ascending
          THEN (IF midVal <= target THEN Bisect(arr, target, ascending, mid, hi)
                ELSE Bisect(arr, target, ascending, lo, mid))
          ELSE (IF midVal >= target THEN Bisect(arr, target, ascending, mid, hi)
                ELSE Bisect(arr, target, ascending, lo, mid))

\* lines 246-277
binarySearchClosest(arr, target, length) ==
  IF length = 0 THEN -1
  ELSE IF length = 1 THEN 0
  ELSE LET b == Bisect(arr, target, Ascending(arr, length), 0, length - 1)
       IN PickCloser(arr, target, b[1], b[2])

SortedAscending(arr) == \A i \in 1..Len(arr) - 1 : arr[i] <= arr[i + 1]

SortedDescending(arr) == \A i \in 1..Len(arr) - 1 : arr[i] >= arr[i + 1]

InitSearch ==
  /\ op = "binarySearchClosest"
  /\ \E k \in 0..SearchLen :
       \E a \in [1..k -> 0..SearchMaxVal], t \in -1..SearchMaxVal + 1, l \in 0..k :
         /\ SortedAscending(a) \/ SortedDescending(a)
         /\ arg = [arr |-> a, target |-> t, length |-> l]
  /\ res = NoRes
  /\ idCounter = 0
  /\ algebraIdCounter = 0
  /\ InitOthers

BinarySearchClosest ==
  /\ op = "binarySearchClosest"
  /\ Pending
  /\ res' = [status |-> "ok", index |-> binarySearchClosest(arg.arr, arg.target, arg.length)]
  /\ UNCHANGED <<op, arg, idCounter, algebraIdCounter, others>>

NextSearch == BinarySearchClosest

SpecSearch == InitSearch /\ [][NextSearch]_vars

(***************************************************************************)
(* Signal processing (src/unnamed/part_001)                                *)
(*                                                                         *)
(* The input samples are integers; Y(y, i) is the number y[i].             *)
(***************************************************************************)
ProcLen == 5

Y(y, i) == FromInt(At(y, i))

Half == Fl(1, 2)

\* lines 39-41: the cross product of the hull test
Cross(y, a, b, i) ==
  FSub(FMul(FromInt(i - a), FSub(Y(y, b), Y(y, a))),
       FMul(FromInt(b - a), FSub(Y(y, i), Y(y, a))))

\* lines 34-47: pop the hull while its last vertex is on or above the line
\* from the vertex before it to i
RECURSIVE PopHull(_, _, _)
PopHull(y, hull, i) ==
  IF Len(hull) >= 2 /\ ~FLess(Cross(y, hull[Len(hull) - 1], hull[Len(hull)], i), Zero)
  THEN PopHull(y, SubSeq(hull, 1, Len(hull) - 1), i)
  ELSE hull

\* lines 32-49: the lower hull of the points (i, y[i]), as indices
RECURSIVE HullIndices(_, _, _)
HullIndices(y, i, hull) ==
  IF i >= Len(y) THEN hull
  ELSE HullIndices(y, i + 1, Append(PopHull(y, hull, i), i))

\* lines 55-57: the hull segment that holds i
RECURSIVE HullSegment(_, _, _)
HullSegment(hull, hi, i) ==
  IF hi < Len(hull) - 1 /\ At(hull, hi + 1) <= i THEN HullSegment(hull, hi + 1, i) ELSE hi

\* lines 58-66
BaselineAt(y, hull, hi, i) ==
  IF hi >= Len(hull) - 1 THEN Y(y, At(hull, Len(hull) - 1))
  ELSE LET a == At(hull, hi)
           b == At(hull, hi + 1)
           t == FDiv(FromInt(i - a), FromInt(b - a))
       IN FAdd(FMul(Y(y, a), FSub(FromInt(1), t)), FMul(Y(y, b), t))

\* lines 52-67
RECURSIVE Baseline(_, _, _, _, _)
Baseline(y, hull, hi, i, acc) ==
  IF i >= Len(y) THEN acc
  ELSE LET h == HullSegment(hull, hi, i)
       IN Baseline(y, hull, h, i + 1, Append(acc, BaselineAt(y, hull, h, i)))

\* lines 27-75
baselineRubberBand(y) ==
  IF Len(y) < 3 THEN CopyOf(y)
  ELSE LET baseline == Baseline(y, HullIndices(y, 1, <<0>>), 0, 0, <<>>)
       IN [i \in 1..Len(y) |-> FSub(FromInt(y[i]), baseline[i])]

\* lines 85-92: the least (dir = -1) or the greatest (dir = 1) sample
Extreme(y, dir) ==
  CHOOSE v \in {y[k] : k \in 1..Len(y)} : \A k \in 1..Len(y) : dir * y[k] <= dir * v

\* lines 82-101
normalizeMinMax(y) ==
  IF Len(y) = 0 THEN <<>>
  ELSE LET min == FromInt(Extreme(y, -1))
           range == FSub(FromInt(Extreme(y, 1)), min)
       IN IF range = Zero THEN Zeros(Len(y))
          ELSE [i \in 1..Len(y) |-> FDiv(FSub(FromInt(y[i]), min), range)]

\* the squared deviations from mean
Squares(v, mean) == [i \in 1..Len(v) |-> FMul(FSub(v[i], mean), FSub(v[i], mean))]

\* lines 139-163
normalizeSNV(y) ==
  LET n == Len(y) IN
  IF n = 0 THEN <<>>
  ELSE LET mean == FDiv(SumFrom(CopyOf(y), 1, Zero), FromInt(n))
           variance == SumFrom(Squares(CopyOf(y), mean), 1, Zero)
           std == FSqrt(FDiv(variance, FromInt(n)))
       IN IF std = Zero THEN Zeros(n)
          ELSE [i \in 1..n |-> FDiv(FSub(FromInt(y[i]), mean), std)]

\* lines 116-122: the trapezoidal area of |y| over the first n samples
RECURSIVE TrapezoidArea(_, _, _, _, _)
TrapezoidArea(x, y, i, n, area) ==
  IF i >= n THEN area
  ELSE TrapezoidArea(x, y, i + 1, n,
         FAdd(area, FMul(FMul(FAbs(FSub(Y(x, i), Y(x, i - 1))),
                              FAdd(FAbs(Y(y, i)), FAbs(Y(y, i - 1)))),
                         Half)))

\* lines 108-131
normalizeArea(x, y) ==
  LET n == Min2(Len(x), Len(y)) IN
  IF n < 2 THEN CopyOf(y)
  ELSE LET area == TrapezoidArea(x, y, 1, n, Zero)
       IN IF area = Zero THEN CopyOf(y)
          ELSE [i \in 1..n |-> FDiv(FromInt(y[i]), area)]

\* lines 216-221: the tabulated numerators and their common denominator
SGTable(w) ==
  CASE w = 5 -> [num |-> <<-3, 12, 17, 12, -3>>, den |-> 35]
    [] w = 7 -> [num |-> <<-2, 3, 6, 7, 6, 3, -2>>, den |-> 21]
    [] w = 9 -> [num |-> <<-21, 14, 39, 54, 59, 54, 39, 14, -21>>, den |-> 231]
    [] w = 11 -> [num |-> <<-36, 9, 44, 69, 84, 89, 84, 69, 44, 9, -36>>, den |-> 429]

\* lines 214-229
getSGCoefficients(w) ==
  IF w \in {5, 7, 9, 11}
  THEN [k \in 1..w |-> FDiv(FromInt(SGTable(w).num[k]), FromInt(SGTable(w).den))]
  ELSE [k \in 1..w |-> FDiv(FromInt(1), FromInt(w))]

\* lines 201-205: the convolution at i, summed from j on
RECURSIVE Convolve(_, _, _, _, _, _)
Convolve(y, coefficients, halfW, i, j, sum) ==
  IF j > halfW THEN sum
  ELSE Convolve(y, coefficients, halfW, i, j + 1,
                FAdd(sum, FMul(At(coefficients, j + halfW), Y(y, i + j))))

\* line 182
TooShortToSmooth(n, windowSize) == n < windowSize \/ windowSize < 3

\* lines 177-209: a cell within halfW of either end keeps its sample
\* (lines 194-197), every other cell holds the convolution (lines 200-206)
smoothSavitzkyGolay(y, windowSize) ==
  LET n == Len(y) IN
  IF TooShortToSmooth(n, windowSize) THEN CopyOf(y)
  ELSE LET w == IF windowSize % 2 = 0 THEN windowSize + 1 ELSE windowSize
           halfW == (w - 1) \div 2
           coefficients == getSGCoefficients(w)
       IN [k \in 1..n |->
             IF halfW <= k - 1 /\ k - 1 < n - halfW
             THEN Convolve(y, coefficients, halfW, k - 1, -halfW, Zero)
             ELSE FromInt(y[k])]

\* lines 250-264: the difference quotient of samples i and j
Slope(x, y, i, j) == FDiv(FSub(Y(y, i), Y(y, j)), FSub(Y(x, i), Y(x, j)))

\* lines 240-267
derivative1st(x, y) ==
  LET n == Min2(Len(x), Len(y)) IN
  IF n < 2 THEN Zeros(n)
  ELSE [k \in 1..n |->
          IF k = 1 THEN Slope(x, y, 1, 0)
          ELSE IF k = n THEN Slope(x, y, n - 1, n - 2)
          ELSE Slope(x, y, k, k - 2)]

\* lines 287-292
SecondDifference(x, y, i) ==
  LET dx1 == FSub(Y(x, i), Y(x, i - 1))
      dx2 == FSub(Y(x, i + 1), Y(x, i))
      dxAvg == FDiv(FAdd(dx1, dx2), FromInt(2))
  IN FDiv(FAdd(FSub(Y(y, i + 1), FMul(FromInt(2), Y(y, i))), Y(y, i - 1)),
          FMul(dxAvg, dxAvg))

\* lines 276-300
derivative2nd(x, y) ==
  LET n == Min2(Len(x), Len(y)) IN
  IF n < 3 THEN Zeros(n)
  ELSE [k \in 1..n |->
          IF k = 1 THEN SecondDifference(x, y, 1)
          ELSE IF k = n THEN SecondDifference(x, y, n - 2)
          ELSE SecondDifference(x, y, k - 1)]

\* the inputs of the model: samples, strictly monotone x axes, window sizes
ProcVals == {-1, 0, 2}

Samples == UNION {[1..k -> ProcVals] : k \in 0..ProcLen}

XAxes ==
  UNION {{[i \in 1..k |-> i - 1], [i \in 1..k |-> k - i], [i \in 1..k |-> (i * (i - 1)) \div 2]} :
         k \in 0..ProcLen}

WindowSizes == {2, 3, 4, 5}

NormLen == 3

\* samples for the two normalisations: among them an odd integer that takes
\* all but one of the significant bits
NormVals == {0, 2, Pow2(MantBits - 1) - 1}

NormSamples == UNION {[1..k -> NormVals] : k \in 0..NormLen}

InitProc ==
  /\ res = NoRes
  /\ idCounter = 0
  /\ algebraIdCounter = 0
  /\ InitOthers
  /\ \/ \E ys \in Samples :
          \/ op = "baselineRubberBand" /\ arg = [y |-> ys]
          \/ op = "smoothSavitzkyGolay" /\ \E w \in WindowSizes : arg = [y |-> ys, windowSize |-> w]
          \/ /\ op \in {"normalizeArea", "derivative1st", "derivative2nd"}
             /\ \E xs \in XAxes : arg = [x |-> xs, y |-> ys]
     \/ /\ op \in {"normalizeMinMax", "normalizeSNV"}
        /\ \E ns \in NormSamples : arg = [y |-> ns]

BaselineRubberBand ==
  /\ op = "baselineRubberBand"
  /\ Pending
  /\ res' = [status |-> "ok", out |-> baselineRubberBand(arg.y)]
  /\ UNCHANGED <<op, arg, idCounter, algebraIdCounter, others>>

NormalizeMinMax ==
  /\ op = "normalizeMinMax"
  /\ Pending
  /\ res' = [status |-> "ok", out |-> normalizeMinMax(arg.y)]
  /\ UNCHANGED <<op, arg, idCounter, algebraIdCounter, others>>

NormalizeSNV ==
  /\ op = "normalizeSNV"
  /\ Pending
  /\ res' = [status |-> "ok", out |-> normalizeSNV(arg.y)]
  /\ UNCHANGED <<op, arg, idCounter, algebraIdCounter, others>>

NormalizeArea ==
  /\ op = "normalizeArea"
  /\ Pending
  /\ res' = [status |-> "ok", out |-> normalizeArea(arg.x, arg.y)]
  /\ UNCHANGED <<op, arg, idCounter, algebraIdCounter, others>>

SmoothSavitzkyGolay ==
  /\ op = "smoothSavitzkyGolay"
  /\ Pending
  /\ res' = [status |-> "ok", out |-> smoothSavitzkyGolay(arg.y, arg.windowSize)]
  /\ UNCHANGED <<op, arg, idCounter, algebraIdCounter, others>>

Derivative1st ==
  /\ op = "derivative1st"
  /\ Pending
  /\ res' = [status |-> "ok", out |-> derivative1st(arg.x, arg.y)]
  /\ UNCHANGED <<op, arg, idCounter, algebraIdCounter, others>>

Derivative2nd ==
  /\ op = "derivative2nd"
  /\ Pending
  /\ res' = [status |-> "ok", out |-> derivative2nd(arg.x, arg.y)]
  /\ UNCHANGED <<op, arg, idCounter, algebraIdCounter, others>>

NextProc ==
  \/ BaselineRubberBand
  \/ NormalizeMinMax
  \/ NormalizeSNV
  \/ NormalizeArea
  \/ SmoothSavitzkyGolay
  \/ Derivative1st
  \/ Derivative2nd

SpecProc == InitProc /\ [][NextProc]_vars

(***************************************************************************)
(* detectPeaks (src/src/utils/export-data.ts)                              *)
(*                                                                         *)
(* x and y are integer samples of one length.  A candidate is              *)
(* [index, prom]; a peak of the result is [x, y] and, for the claims, the  *)
(* index of the sample it was made from.                                   *)
(***************************************************************************)
PeakLen == 7

MaxMinDistance == 3

\* lines 265-272
RECURSIVE findMinBefore(_, _, _, _)
findMinBefore(y, i, j, min) ==
  IF j < 0 THEN min
  ELSE IF At(y, j) > At(y, i) THEN min
  ELSE findMinBefore(y, i, j - 1, Min2(min, At(y, j)))

\* lines 277-284
RECURSIVE findMinAfter(_, _, _, _)
findMinAfter(y, i, j, min) ==
  IF j >= Len(y) THEN min
  ELSE IF At(y, j) > At(y, i) THEN min
  ELSE findMinAfter(y, i, j + 1, Min2(min, At(y, j)))

\* lines 225-227
Prominence(y, i) ==
  At(y, i) - Max2(findMinBefore(y, i, i - 1, At(y, i)), findMinAfter(y, i, i + 1, At(y, i)))

\* lines 209-215
SignalRange(y) ==
  LET yMax == CHOOSE v \in {y[k] : k \in 1..Len(y)} : \A k \in 1..Len(y) : y[k] <= v
      yMin == CHOOSE v \in {y[k] : k \in 1..Len(y)} : \A k \in 1..Len(y) : y[k] >= v
  IN yMax - yMin

\* line 223
IsLocalMaximum(y, i) == At(y, i) > At(y, i - 1) /\ At(y, i) > At(y, i + 1)

\* lines 221-233: the local maxima whose prominence reaches the threshold
RECURSIVE Candidates(_, _, _, _)
Candidates(y, absProminence, i, acc) ==
  IF i >= Len(y) - 1 THEN acc
  ELSE Candidates(y, absProminence, i + 1,
         IF IsLocalMaximum(y, i) /\ ~FLess(FromInt(Prominence(y, i)), absProminence)
         THEN Append(acc, [index |-> i, prom |-> Prominence(y, i)])
         ELSE acc)

\* line 236: highest prominence first
LessProminent(a, b) == a.prom < b.prom

\* the final sort taken the other way round: highest x first
LowerX(a, b) == a.x < b.x

\* line 259: lowest x first
HigherX(a, b) == a.x > b.x

\* the comparator puts a after b; order names the comparator
After(order, a, b) == IF order = "prominence" THEN LessProminent(a, b) ELSE HigherX(a, b)

\* Array.prototype.sort is stable: c goes before the first element that the
\* comparator puts after it
RECURSIVE InsertSorted(_, _, _, _)
InsertSorted(sorted, c, order, k) ==
  IF k > Len(sorted) THEN Append(sorted, c)
  ELSE IF After(order, sorted[k], c)
    THEN SubSeq(sorted, 1, k - 1) \o <<c>> \o SubSeq(sorted, k, Len(sorted))
  ELSE InsertSorted(sorted, c, order, k + 1)

RECURSIVE StableSort(_, _, _, _)
StableSort(seq, order, k, sorted) ==
  IF k > Len(seq) THEN sorted
  ELSE StableSort(seq, order, k + 1, InsertSorted(sorted, seq[k], order, 1))

\* the distance test taken inclusively: exactly minDistance apart is too close
TooCloseInclusive(kept, c, minDistance) ==
  \E k \in 1..Len(kept) : Abs(kept[k].index - c.index) <= minDistance

\* lines 241-243
TooClose(kept, c, minDistance) ==
  \E k \in 1..Len(kept) : Abs(kept[k].index - c.index) < minDistance

\* lines 239-247
RECURSIVE KeepDistant(_, _, _, _)
KeepDistant(candidates, minDistance, k, kept) ==
  IF k > Len(candidates) THEN kept
  ELSE KeepDistant(candidates, minDistance, k + 1,
         IF TooClose(kept, candidates[k], minDistance) THEN kept
         ELSE Append(kept, candidates[k]))

\* line 250: maxPeaks undefined or 0 keeps them all
Selected(kept, o) ==
  IF o.hasMaxPeaks /\ o.maxPeaks # 0
  THEN SubSeq(kept, 1, Min2(o.maxPeaks, Len(kept)))
  ELSE kept

\* lines 195-260; candidates and kept are the lists of lines 221 and 239
detectPeaks(x, y, o) ==
  IF Len(x) < 3 \/ Len(y) < 3 \/ SignalRange(y) = 0
  THEN [candidates |-> <<>>, kept |-> <<>>, peaks |-> <<>>]
  ELSE
    LET absProminence == FMul(o.prominence, FromInt(SignalRange(y)))
        candidates == StableSort(Candidates(y, absProminence, 1, <<>>), "prominence", 1, <<>>)
        kept == KeepDistant(candidates, o.minDistance, 1, <<>>)
        selected == Selected(kept, o)
        peaks == [k \in 1..Len(selected) |->
                    [x |-> At(x, selected[k].index), y |-> At(y, selected[k].index),
                     index |-> selected[k].index]]
    IN [candidates |-> candidates, kept |-> kept,
        peaks |-> StableSort(peaks, "x", 1, <<>>)]

PeakVals == {0, 1, 2}

PeakOptions ==
  [prominence : {Fl(1, 4), Fl(3, 4)}, minDistance : 1..MaxMinDistance,
   hasMaxPeaks : {FALSE}, maxPeaks : {0}]
  \cup [prominence : {Fl(1, 4)}, minDistance : {1, MaxMinDistance},
        hasMaxPeaks : {TRUE}, maxPeaks : {0, 1, 2}]

\* x of k samples in ascending and in descending order
PeakAxes(k) == {[i \in 1..k |-> 10 * i], [i \in 1..k |-> 10 * (k + 1 - i)]}

InitPeaks ==
  /\ op = "detectPeaks"
  /\ \E k \in 0..PeakLen :
       \E xs \in PeakAxes(k), ys \in [1..k -> PeakVals], o \in PeakOptions :
         arg = [x |-> xs, y |-> ys, options |-> o]
  /\ res = NoRes
  /\ idCounter = 0
  /\ algebraIdCounter = 0
  /\ InitOthers

DetectPeaks ==
  /\ op = "detectPeaks"
  /\ Pending
  /\ res' = [status |-> "ok"] @@ detectPeaks(arg.x, arg.y, arg.options)
  /\ UNCHANGED <<op, arg, idCounter, algebraIdCounter, others>>

NextPeaks == DetectPeaks

SpecPeaks == InitPeaks /\ [][NextPeaks]_vars

(***************************************************************************)
(* Curve algebra (src/unnamed/part_000)                                    *)
(*                                                                         *)
(* A curve is [id, x, y] with x and y arrays of floats.  An operation      *)
(* that makes a curve returns it with the value idCounter has afterwards.  *)
(***************************************************************************)
InterpLen == 3

\* the direction test with the descending case left out
AlwaysAscending(x, n) == TRUE

\* line 167
SourceAscending(x, n) == FLess(At(x, 0), At(x, n - 1))

\* lines 173-185: the pair <<lo, hi>> the bisection ends with
RECURSIVE Bracket(_, _, _, _, _)
Bracket(x, targetX, ascending, lo, hi) ==
  IF lo < hi - 1
  THEN LET mid == (lo + hi) \div 2
       IN IF (ascending /\ FLeq(At(x, mid), targetX))
             \/ (~ascending /\ FLeq(targetX, At(x, mid)))
          THEN Bracket(x, targetX, ascending, mid, hi)
          ELSE Bracket(x, targetX, ascending, lo, mid)
  ELSE <<lo, hi>>

\* lines 188-198
Lerp(x0, y0, x1, y1, targetX) ==
  IF x0 = x1 THEN y0
  ELSE FAdd(y0, FMul(FDiv(FSub(targetX, x0), FSub(x1, x0)), FSub(y1, y0)))

\* lines 169-199, one target
InterpolateAt(spectrum, n, targetX) ==
  LET b == Bracket(spectrum.x, targetX, SourceAscending(spectrum.x, n), 0, n - 1)
  IN Lerp(At(spectrum.x, b[1]), At(spectrum.y, b[1]),
          At(spectrum.x, b[2]), At(spectrum.y, b[2]), targetX)

\* lines 156-207
interpolateToGrid(spectrum, newX, counter) ==
  LET n == Min2(Len(spectrum.x), Len(spectrum.y)) IN
  IF n < 2
  THEN [curve |-> [id |-> spectrum.id, x |-> newX, y |-> Zeros(Len(newX))],
        idCounter |-> counter]
  ELSE [curve |-> [id |-> <<"interp", counter + 1>>, x |-> newX,
                   y |-> [j \in 1..Len(newX) |-> InterpolateAt(spectrum, n, newX[j])]],
        idCounter |-> counter + 1]

\* lines 36, 58, 136: a copy of the shorter x
ShorterX(a, b) == IF Len(a.x) <= Len(b.x) THEN a.x ELSE b.x

\* lines 26-43
differenceSpectrum(a, b, counter) ==
  LET n == Min2(Len(a.y), Len(b.y)) IN
  [curve |-> [id |-> <<"diff", counter + 1>>, x |-> ShorterX(a, b),
              y |-> [i \in 1..n |-> FSub(a.y[i], b.y[i])]],
   idCounter |-> counter + 1]

\* lines 48-64
addSpectra(a, b, counter) ==
  LET n == Min2(Len(a.y), Len(b.y)) IN
  [curve |-> [id |-> <<"add", counter + 1>>, x |-> ShorterX(a, b),
              y |-> [i \in 1..n |-> FAdd(a.y[i], b.y[i])]],
   idCounter |-> counter + 1]

\* lines 69-86
scaleSpectrum(spectrum, factor, counter) ==
  [curve |-> [id |-> <<"scaled", counter + 1>>, x |-> spectrum.x,
              y |-> [i \in 1..Len(spectrum.y) |-> FMul(spectrum.y[i], factor)]],
   idCounter |-> counter + 1]

\* lines 126-144
residualSpectrum(a, b, counter) ==
  LET n == Min2(Len(a.y), Len(b.y)) IN
  [curve |-> [id |-> <<"residual", counter + 1>>, x |-> ShorterX(a, b),
              y |-> [i \in 1..n |-> FAbs(FSub(a.y[i], b.y[i]))]],
   idCounter |-> counter + 1]

\* the products of the deviations of u from meanU and of v from meanV
Products(u, meanU, v, meanV, n) ==
  [i \in 1..n |-> FMul(FSub(u[i], meanU), FSub(v[i], meanV))]

\* lines 94-121
correlationCoefficient(a, b) ==
  LET n == Min2(Len(a.y), Len(b.y)) IN
  IF n = 0 THEN Zero
  ELSE
    LET ya == SubSeq(a.y, 1, n)
        yb == SubSeq(b.y, 1, n)
        meanA == FDiv(SumFrom(ya, 1, Zero), FromInt(n))
        meanB == FDiv(SumFrom(yb, 1, Zero), FromInt(n))
        cov == SumFrom(Products(ya, meanA, yb, meanB, n), 1, Zero)
        varA == SumFrom(Products(ya, meanA, ya, meanA, n), 1, Zero)
        varB == SumFrom(Products(yb, meanB, yb, meanB, n), 1, Zero)
        denom == FSqrt(FMul(varA, varB))
    IN IF denom = Zero THEN Zero ELSE FDiv(cov, denom)

\* source x of n samples: even and uneven spacing, ascending and descending
SourceAxes(n) ==
  LET even == [i \in 1..n |-> FromInt(2 * (i - 1))]
      uneven == [i \in 1..n |-> FromInt(IF i = n THEN 2 * n - 1 ELSE i - 1)]
      Reverse(a) == [i \in 1..n |-> a[n + 1 - i]]
  IN {even, uneven, Reverse(even), Reverse(uneven)}

\* sample values: small ones and one with the largest exponent of the integers
\* that are all exact
AlgebraVals == {FromInt(-1), Zero, FromInt(Pow2(MantBits))}

Targets == {FromInt(v) : v \in -1..2 * InterpLen}

\* a curve the caller made
Source(xs, ys) == [id |-> <<"user", 1>>, x |-> xs, y |-> ys]

InitInterpolate ==
  /\ op = "interpolateToGrid"
  /\ \E n \in 0..InterpLen, m \in 0..2 :
       \E xs \in SourceAxes(n), ys \in [1..n -> AlgebraVals], newX \in [1..m -> Targets] :
         arg = [spectrum |-> Source(xs, ys), newX |-> newX]
  /\ res = NoRes
  /\ idCounter = 0
  /\ algebraIdCounter = 0
  /\ InitOthers

InterpolateToGrid ==
  /\ op = "interpolateToGrid"
  /\ Pending
  /\ LET r == interpolateToGrid(arg.spectrum, arg.newX, algebraIdCounter)
     IN /\ res' = [status |-> "ok", curve |-> r.curve]
        /\ algebraIdCounter' = r.idCounter
  /\ UNCHANGED <<op, arg, idCounter, others>>

CorrLen == 3

\* y samples of the correlated curves: among them an odd integer that takes
\* all but one of the significant bits
CorrVals == {Zero, FromInt(2), FromInt(Pow2(MantBits - 1) - 1)}

CorrSamples == UNION {[1..k -> CorrVals] : k \in 0..CorrLen}

InitCorrelation ==
  /\ op = "correlationCoefficient"
  /\ \E ya \in CorrSamples, yb \in CorrSamples :
       arg = [a |-> Source([i \in 1..Len(ya) |-> FromInt(i)], ya),
              b |-> Source([i \in 1..Len(yb) |-> FromInt(i)], yb)]
  /\ res = NoRes
  /\ idCounter = 0
  /\ algebraIdCounter = 0
  /\ InitOthers

CorrelationCoefficient ==
  /\ op = "correlationCoefficient"
  /\ Pending
  /\ res' = [status |-> "ok", r |-> correlationCoefficient(arg.a, arg.b)]
  /\ UNCHANGED <<op, arg, idCounter, algebraIdCounter, others>>

InitAlgebra == InitInterpolate \/ InitCorrelation

NextAlgebra == InterpolateToGrid \/ CorrelationCoefficient

SpecAlgebra == InitAlgebra /\ [][NextAlgebra]_vars

(***************************************************************************)
(* The text decoders (src/src/parsers/json.ts, src/unnamed/part_009)       *)
(*                                                                         *)
(* A text is what the decoder's scan of it finds: for parseJson the value  *)
(* JSON.parse returns, for parseCsv the lines with the numbers parseFloat  *)
(* reads from the x and the y column, for parseJcamp the points the        *)
(* built-in scan collects and the blocks jcampconverter returns.           *)
(***************************************************************************)
\* json.ts lines 80-115
parseSingleJson(input, index, clock) ==
  IF ~input.hasX THEN [status |-> "missingX"]
  ELSE IF ~input.hasY THEN [status |-> "missingY"]
  ELSE IF Len(input.x) # Len(input.y) THEN [status |-> "lengthMismatch"]
  ELSE [status |-> "ok",
        curve |-> [id |-> <<"json", clock, index>>, x |-> input.x, y |-> input.y]]

\* json.ts lines 51-75
parseJson(data, clock) ==
  IF data.kind = "invalid" THEN [status |-> "invalidJson", spectra |-> <<>>]
  ELSE IF data.kind = "other" THEN [status |-> "invalidStructure", spectra |-> <<>>]
  ELSE
    LET parsed == [i \in 1..Len(data.items) |-> parseSingleJson(data.items[i], i - 1, clock)]
        failed == {i \in 1..Len(parsed) : parsed[i].status # "ok"}
    IN IF failed # {}
       THEN [status |-> parsed[CHOOSE i \in failed : \A j \in failed : i <= j].status,
             spectra |-> <<>>]
       ELSE [status |-> "ok", spectra |-> [i \in 1..Len(parsed) |-> parsed[i].curve]]

\* part_009 lines 94-106: the rows from line i on that hold two numbers
RECURSIVE CsvRows(_, _, _)
CsvRows(lines, i, acc) ==
  IF i >= Len(lines) THEN acc
  ELSE LET line == At(lines, i)
       IN CsvRows(lines, i + 1,
            IF line.kind = "data" /\ line.xIsNumber /\ line.yIsNumber
            THEN Append(acc, line) ELSE acc)

\* part_009 lines 64-118
parseCsv(lines, hasHeader, counter) ==
  IF Len(lines) < 2 THEN [status |-> "tooFewLines", spectra |-> <<>>, idCounter |-> counter]
  ELSE
    LET rows == CsvRows(lines, IF hasHeader THEN 1 ELSE 0, <<>>) IN
    IF Len(rows) = 0 THEN [status |-> "noData", spectra |-> <<>>, idCounter |-> counter]
    ELSE [status |-> "ok",
          spectra |-> <<[id |-> <<"csv", counter + 1>>,
                         x |-> [k \in 1..Len(rows) |-> rows[k].x],
                         y |-> [k \in 1..Len(rows) |-> rows[k].y]]>>,
          idCounter |-> counter + 1]

\* part_009 lines 265-288
parseWithConverter(blocks, clock) ==
  IF \E i \in 1..Len(blocks) : ~blocks[i].hasData
  THEN [status |-> "noSpectralData", spectra |-> <<>>]
  ELSE [status |-> "ok",
        spectra |-> [i \in 1..Len(blocks) |->
                       [id |-> <<"jcamp", clock, i - 1>>, x |-> blocks[i].x, y |-> blocks[i].y]]]

\* part_009 lines 299-375
parseBasicJcamp(points, clock) ==
  IF Len(points.x) = 0 THEN [status |-> "noData", spectra |-> <<>>]
  ELSE [status |-> "ok", spectra |-> <<[id |-> <<"jcamp", clock>>, x |-> points.x, y |-> points.y]>>]

\* part_009 lines 254-260, after getConverter has answered
parseJcamp(text, module, clock) ==
  IF module = "present" THEN parseWithConverter(text.blocks, clock)
  ELSE parseBasicJcamp(text.points, clock)

(***************************************************************************)
(* One process: the decoders and the curve algebra called one after the    *)
(* other on the module state they share, and the clock advancing between   *)
(* calls.  calls keeps every call with its arguments and what it returned. *)
(***************************************************************************)
MaxCalls == 3

MaxNow == 1

\* a header-only file, a single-curve file of one sample, a file of two
\* sub-files of one sample each
ProcessBuffers ==
  { Buffer(minSize - 1, 0, 75, 1, 0, <<>>),
    Buffer(minSize + 4, 0, 75, 1, 0, <<>>),
    Buffer(minSize + 2 * (SubHeaderSize + 4), TMULTI, 75, 1, 2,
           <<[n |-> 1, startX |-> 0, endX |-> 1], [n |-> 1, startX |-> 0, endX |-> 1]>>) }

JsonItem(xs, ys) == [hasX |-> TRUE, hasY |-> TRUE, x |-> xs, y |-> ys]

JsonTexts ==
  { [kind |-> "invalid", items |-> <<>>],
    [kind |-> "object", items |-> <<JsonItem(<<Zero, FromInt(1)>>, <<FromInt(2), Zero>>)>>],
    [kind |-> "array", items |-> <<JsonItem(<<Zero>>, <<FromInt(2)>>),
                                   JsonItem(<<Zero, FromInt(1)>>, <<Zero>>)>>],
    [kind |-> "array", items |-> <<JsonItem(<<Zero>>, <<FromInt(2)>>),
                                   JsonItem(<<Zero, FromInt(1)>>, <<Zero, Zero>>)>>] }

CsvLine(xv, yv) ==
  [kind |-> "data", xIsNumber |-> TRUE, yIsNumber |-> TRUE, x |-> FromInt(xv), y |-> FromInt(yv)]

CsvTexts ==
  { <<CsvLine(0, 1)>>,
    <<CsvLine(0, 1), CsvLine(1, 2)>>,
    <<CsvLine(0, 1), [kind |-> "comment", xIsNumber |-> FALSE, yIsNumber |-> FALSE,
                      x |-> Zero, y |-> Zero]>> }

JcampBlock(xs, ys) == [hasData |-> TRUE, x |-> xs, y |-> ys]

JcampTexts ==
  { [points |-> [x |-> <<>>, y |-> <<>>], blocks |-> <<>>],
    [points |-> [x |-> <<Zero, FromInt(1)>>, y |-> <<FromInt(2), Zero>>],
     blocks |-> <<JcampBlock(<<Zero, FromInt(1)>>, <<FromInt(2), Zero>>)>>] }

\* the curves a call returned
RECURSIVE MadeUpTo(_, _)
MadeUpTo(log, k) ==
  IF k = 0 THEN <<>> ELSE MadeUpTo(log, k - 1) \o log[k].res.spectra

\* every curve the process has made, in the order of creation
Made == MadeUpTo(calls, Len(calls))

Curves == {Made[k] : k \in 1..Len(Made)}

\* the call is made: its arguments and its result are kept
Returns(name, a, out) ==
  /\ Len(calls) < MaxCalls
  /\ op' = name
  /\ arg' = a
  /\ res' = out
  /\ calls' = Append(calls, [op |-> name, arg |-> a, res |-> out])
  /\ UNCHANGED <<heap, hooks>>

InitProcess ==
  /\ op = "none"
  /\ arg = <<>>
  /\ res = NoRes
  /\ idCounter = 0
  /\ algebraIdCounter = 0
  /\ InitOthers

\* Date.now() has moved on by a millisecond
Tick ==
  /\ now < MaxNow
  /\ now' = now + 1
  /\ UNCHANGED <<op, arg, res, idCounter, algebraIdCounter, csvIdCounter, converter, calls, heap,
                 hooks>>

CallParseSpc ==
  \E buf \in ProcessBuffers :
    LET r == parseSpc(buf) IN
    /\ Returns("parseSpc", buf, r)
    /\ idCounter' = idCounter + Len(r.spectra)
    /\ UNCHANGED <<algebraIdCounter, csvIdCounter, converter, now>>

CallParseJson ==
  \E data \in JsonTexts :
    /\ Returns("parseJson", data, parseJson(data, now))
    /\ UNCHANGED <<idCounter, algebraIdCounter, csvIdCounter, converter, now>>

CallParseCsv ==
  \E lines \in CsvTexts, hasHeader \in BOOLEAN :
    LET r == parseCsv(lines, hasHeader, csvIdCounter) IN
    /\ Returns("parseCsv", [lines |-> lines, hasHeader |-> hasHeader],
               [status |-> r.status, spectra |-> r.spectra])
    /\ csvIdCounter' = r.idCounter
    /\ UNCHANGED <<idCounter, algebraIdCounter, converter, now>>

\* part_009 lines 219-223, the part of getConverter that runs in the call:
\* the lookup after it (converterChecked is set before the import is
\* awaited, converterModule stays null until the import has answered) and
\* what the caller awaits, the import or the module of the moment
getConverter(conv) ==
  IF conv = "unchecked" THEN [converter |-> "pending", awaits |-> "import"]
  ELSE [converter |-> conv, awaits |-> IF conv = "present" THEN "present" ELSE "absent"]

\* part_009 lines 219-230 and 254-260: the first call looks jcampconverter up
\* and the answer is cached; the call is awaited before the next is made
CallParseJcamp ==
  \E text \in JcampTexts, found \in {"absent", "present"} :
    /\ converter # "unchecked" => found = converter
    /\ converter' = found
    /\ Returns("parseJcamp", text, parseJcamp(text, found, now))
    /\ UNCHANGED <<idCounter, algebraIdCounter, csvIdCounter, now>>

\* the result of an algebra call and the counter after it
AlgebraReturns(name, a, r) ==
  /\ Returns(name, a, [status |-> "ok", spectra |-> <<r.curve>>])
  /\ algebraIdCounter' = r.idCounter
  /\ UNCHANGED <<idCounter, csvIdCounter, converter, now>>

CallDifferenceSpectrum ==
  \E a, b \in Curves :
    AlgebraReturns("differenceSpectrum", <<a, b>>, differenceSpectrum(a, b, algebraIdCounter))

CallAddSpectra ==
  \E a, b \in Curves :
    AlgebraReturns("addSpectra", <<a, b>>, addSpectra(a, b, algebraIdCounter))

CallScaleSpectrum ==
  \E a \in Curves :
    AlgebraReturns("scaleSpectrum", <<a, FromInt(2)>>,
                   scaleSpectrum(a, FromInt(2), algebraIdCounter))

CallResidualSpectrum ==
  \E a, b \in Curves :
    AlgebraReturns("residualSpectrum", <<a, b>>, residualSpectrum(a, b, algebraIdCounter))

CallInterpolateToGrid ==
  \E a \in Curves, newX \in {<<>>, <<Zero>>} :
    AlgebraReturns("interpolateToGrid", <<a, newX>>,
                   interpolateToGrid(a, newX, algebraIdCounter))

NextProcess ==
  \/ Tick
  \/ CallParseSpc
  \/ CallParseJson
  \/ CallParseCsv
  \/ CallParseJcamp
  \/ CallDifferenceSpectrum
  \/ CallAddSpectra
  \/ CallScaleSpectrum
  \/ CallResidualSpectrum
  \/ CallInterpolateToGrid

SpecProcess == InitProcess /\ [][NextProcess]_vars

(***************************************************************************)
(* Array objects.  The signal-processing and the curve-algebra operations  *)
(* on arrays that are objects of the heap: an argument is the reference of *)
(* an array, new Float64Array(..) makes an array with a reference of its   *)
(* own, and a returned array or curve is given by its references.          *)
(***************************************************************************)
ArrayLen == 3

\* the array with the first reference written over, where one should be made
OverwriteFirst(h, data) == [heap |-> [h EXCEPT ![1] = data], ref |-> 1]

\* new Float64Array(n) or new Float64Array(source), filled with data
NewFloat64Array(h, data) == [heap |-> Append(h, data), ref |-> Len(h) + 1]

\* the operation returns the one array it made
ReturnsArray(data) ==
  LET made == NewFloat64Array(heap, data) IN
  /\ Pending
  /\ heap' = made.heap
  /\ res' = [status |-> "ok", refs |-> <<made.ref>>]
  /\ UNCHANGED <<op, arg, idCounter, algebraIdCounter, csvIdCounter, converter, now, calls, hooks>>

\* the operation returns a curve whose x and y it made
ReturnsCurve(r) ==
  LET x == NewFloat64Array(heap, r.curve.x)
      y == NewFloat64Array(x.heap, r.curve.y)
  IN /\ Pending
     /\ heap' = y.heap
     /\ res' = [status |-> "ok", refs |-> <<x.ref, y.ref>>, id |-> r.curve.id]
     /\ algebraIdCounter' = r.idCounter
     /\ UNCHANGED <<op, arg, idCounter, csvIdCounter, converter, now, calls, hooks>>

\* the curve an argument refers to
CurveAt(c) == [id |-> c.id, x |-> heap[c.x], y |-> heap[c.y]]

BaselineRubberBandOfArray ==
  op = "baselineRubberBand[]" /\ ReturnsArray(baselineRubberBand(heap[arg.y]))

NormalizeMinMaxOfArray ==
  op = "normalizeMinMax[]" /\ ReturnsArray(normalizeMinMax(heap[arg.y]))

NormalizeAreaOfArrays ==
  op = "normalizeArea[]" /\ ReturnsArray(normalizeArea(heap[arg.x], heap[arg.y]))

NormalizeSNVOfArray ==
  op = "normalizeSNV[]" /\ ReturnsArray(normalizeSNV(heap[arg.y]))

SmoothSavitzkyGolayOfArray ==
  op = "smoothSavitzkyGolay[]"
  /\ ReturnsArray(smoothSavitzkyGolay(heap[arg.y], arg.windowSize))

Derivative1stOfArrays ==
  op = "derivative1st[]" /\ ReturnsArray(derivative1st(heap[arg.x], heap[arg.y]))

Derivative2ndOfArrays ==
  op = "derivative2nd[]" /\ ReturnsArray(derivative2nd(heap[arg.x], heap[arg.y]))

DifferenceSpectrumOfArrays ==
  op = "differenceSpectrum[]"
  /\ ReturnsCurve(differenceSpectrum(CurveAt(arg.a), CurveAt(arg.b), algebraIdCounter))

AddSpectraOfArrays ==
  op = "addSpectra[]"
  /\ ReturnsCurve(addSpectra(CurveAt(arg.a), CurveAt(arg.b), algebraIdCounter))

ScaleSpectrumOfArrays ==
  op = "scaleSpectrum[]"
  /\ ReturnsCurve(scaleSpectrum(CurveAt(arg.a), arg.factor, algebraIdCounter))

ResidualSpectrumOfArrays ==
  op = "residualSpectrum[]"
  /\ ReturnsCurve(residualSpectrum(CurveAt(arg.a), CurveAt(arg.b), algebraIdCounter))

InterpolateToGridOfArrays ==
  op = "interpolateToGrid[]"
  /\ ReturnsCurve(interpolateToGrid(CurveAt(arg.a), heap[arg.newX], algebraIdCounter))

ArrayOps1 == {"baselineRubberBand[]", "normalizeMinMax[]", "normalizeSNV[]"}

ArrayOps2 == {"normalizeArea[]", "derivative1st[]", "derivative2nd[]"}

CurveOps2 == {"differenceSpectrum[]", "addSpectra[]", "residualSpectrum[]"}

\* x of k samples and integer samples of j =< ArrayLen samples
AxisOf(k) == [i \in 1..k |-> i - 1]

ArraySamples == UNION {[1..j -> {0, 2}] : j \in 0..ArrayLen}

\* the arrays that exist before the call: x is 1, y is 2, a second y or the
\* target grid is 3
InitArrays ==
  /\ res = NoRes
  /\ idCounter = 0
  /\ algebraIdCounter = 0
  /\ csvIdCounter = 0 /\ converter = "unchecked" /\ now = 0 /\ calls = <<>>
  /\ NoHooks
  /\ \E k \in 0..ArrayLen, ys \in ArraySamples, zs \in ArraySamples :
       \/ /\ op \in ArrayOps1 /\ zs = <<>>
          /\ heap = <<AxisOf(k), ys>> /\ arg = [y |-> 2]
       \/ /\ op \in ArrayOps2 /\ zs = <<>>
          /\ heap = <<AxisOf(k), ys>> /\ arg = [x |-> 1, y |-> 2]
       \/ /\ op = "smoothSavitzkyGolay[]" /\ zs = <<>>
          /\ heap = <<AxisOf(k), ys>>
          /\ \E w \in {2, 3} : arg = [y |-> 2, windowSize |-> w]
       \/ /\ op \in CurveOps2
          /\ heap = <<CopyOf(AxisOf(k)), CopyOf(ys), CopyOf(zs)>>
          /\ arg = [a |-> [id |-> <<"user", 1>>, x |-> 1, y |-> 2],
                    b |-> [id |-> <<"user", 2>>, x |-> 1, y |-> 3]]
       \/ /\ op = "scaleSpectrum[]" /\ zs = <<>>
          /\ heap = <<CopyOf(AxisOf(k)), CopyOf(ys)>>
          /\ arg = [a |-> [id |-> <<"user", 1>>, x |-> 1, y |-> 2], factor |-> FromInt(2)]
       \/ /\ op = "interpolateToGrid[]"
          /\ heap = <<CopyOf(AxisOf(k)), CopyOf(ys), CopyOf(zs)>>
          /\ arg = [a |-> [id |-> <<"user", 1>>, x |-> 1, y |-> 2], newX |-> 3]

NextArrays ==
  \/ BaselineRubberBandOfArray
  \/ NormalizeMinMaxOfArray
  \/ NormalizeAreaOfArrays
  \/ NormalizeSNVOfArray
  \/ SmoothSavitzkyGolayOfArray
  \/ Derivative1stOfArrays
  \/ Derivative2ndOfArrays
  \/ DifferenceSpectrumOfArrays
  \/ AddSpectraOfArrays
  \/ ScaleSpectrumOfArrays
  \/ ResidualSpectrumOfArrays
  \/ InterpolateToGridOfArrays

SpecArrays == InitArrays /\ [][NextArrays]_vars

(***************************************************************************)
(* useHistory (src/src/hooks/useHistory.ts)                                *)
(*                                                                         *)
(* hist is the mounted hook: state is the value of the last render,        *)
(* undoStack and redoStack are the refs (written at once), undoCount and   *)
(* redoCount are the counts last set, and queue holds the updates of       *)
(* setState that no render has processed yet.  A value of T is a string,   *)
(* "undefined" being the JavaScript undefined.  React runs the updater     *)
(* of a setState call at the call when the component has no pending        *)
(* update and it has nothing else to do first, and otherwise in the next   *)
(* render, in queue order: which of the two is a choice of each call.      *)
(***************************************************************************)
MaxDepth == 3

MaxHistoryCalls == 4

HistoryValues == {"undefined", "a", "b"}

\* lines 41-50
useHistory(initialState, maxDepth) ==
  [mounted |-> TRUE, initialState |-> initialState, maxDepth |-> maxDepth,
   state |-> initialState, undoStack |-> <<>>, redoStack |-> <<>>,
   undoCount |-> 0, redoCount |-> 0, queue |-> <<>>]

\* Array.prototype.pop: undefined from an empty array
Pop(stack) ==
  IF stack = <<>> THEN [value |-> "undefined", rest |-> <<>>]
  ELSE [value |-> stack[Len(stack)], rest |-> SubSeq(stack, 1, Len(stack) - 1)]

\* lines 54-64: the updater of push, h.state being prev
PushUpdater(h, newState) ==
  LET pushed == Append(h.undoStack, h.state)
      kept == IF Len(pushed) > h.maxDepth THEN Tail(pushed) ELSE pushed
  IN [h EXCEPT !.undoStack = kept, !.undoCount = Len(kept),
               !.redoStack = <<>>, !.redoCount = 0, !.state = newState]

\* lines 72-77: the updater of undo, h.state being current
UndoUpdater(h, prev) ==
  [h EXCEPT !.redoStack = Append(h.redoStack, h.state),
            !.redoCount = Len(h.redoStack) + 1,
            !.undoCount = Len(h.undoStack), !.state = prev]

\* lines 84-89: the updater of redo, h.state being current
RedoUpdater(h, next) ==
  [h EXCEPT !.undoStack = Append(h.undoStack, h.state),
            !.undoCount = Len(h.undoStack) + 1,
            !.redoCount = Len(h.redoStack), !.state = next]

\* one update of the state: an updater function or a plain value
RunUpdate(h, u) ==
  CASE u.kind = "push" -> PushUpdater(h, u.value)
    [] u.kind = "undo" -> UndoUpdater(h, u.value)
    [] u.kind = "redo" -> RedoUpdater(h, u.value)
    [] OTHER -> [h EXCEPT !.state = u.value]

RECURSIVE RunQueue(_, _)
\* a render processes the queued updates in order
RunQueue(h, q) == IF q = <<>> THEN h ELSE RunQueue(RunUpdate(h, Head(q)), Tail(q))

\* setState(u): run at the call (eager, only with nothing pending; an
\* unchanged state then needs no render) or queued for the next render
setState(h, u, eager) ==
  IF eager
  THEN LET r == RunUpdate(h, u) IN
       IF r.state = h.state THEN r
       ELSE [r EXCEPT !.state = h.state, !.queue = <<[kind |-> "value", value |-> r.state]>>]
  ELSE [h EXCEPT !.queue = Append(h.queue, u)]

\* lines 52-67
push(h, newState, eager) == setState(h, [kind |-> "push", value |-> newState], eager)

\* lines 69-79
undo(h, eager) ==
  LET prev == Pop(h.undoStack)
      popped == [h EXCEPT !.undoStack = prev.rest]
  IN IF prev.value = "undefined" THEN [hook |-> popped, ret |-> FALSE]
     ELSE [hook |-> setState(popped, [kind |-> "undo", value |-> prev.value], eager),
           ret |-> TRUE]

\* lines 81-91
redo(h, eager) ==
  LET next == Pop(h.redoStack)
      popped == [h EXCEPT !.redoStack = next.rest]
  IN IF next.value = "undefined" THEN [hook |-> popped, ret |-> FALSE]
     ELSE [hook |-> setState(popped, [kind |-> "redo", value |-> next.value], eager),
           ret |-> TRUE]

\* lines 93-99
reset(h, eager) ==
  [setState(h, [kind |-> "value", value |-> h.initialState], eager)
     EXCEPT !.undoStack = <<>>, !.redoStack = <<>>, !.undoCount = 0, !.redoCount = 0]

\* lines 107-108
canUndo(h) == h.undoCount > 0

canRedo(h) == h.redoCount > 0

\* whether the updater of a call may run at the call
Eagerness == IF hist.queue = <<>> THEN BOOLEAN ELSE {FALSE}

\* a call of the hook returns: the call is kept with the hook it was made on
HookReturns(name, a, out, h) ==
  /\ Len(calls) < MaxHistoryCalls
  /\ op' = name
  /\ arg' = a
  /\ res' = out
  /\ hist' = h
  /\ calls' = Append(calls, [op |-> name, arg |-> a, res |-> out, before |-> hist])
  /\ UNCHANGED <<idCounter, algebraIdCounter, csvIdCounter, converter, now, heap, loader, region,
                 jcamp>>

InitHistory ==
  /\ op = "none"
  /\ arg = <<>>
  /\ res = NoRes
  /\ idCounter = 0
  /\ algebraIdCounter = 0
  /\ csvIdCounter = 0 /\ converter = "unchecked" /\ now = 0 /\ calls = <<>> /\ heap = <<>>
  /\ \E initialState \in HistoryValues, maxDepth \in 1..MaxDepth :
       hist = useHistory(initialState, maxDepth)
  /\ loader = NoHook /\ region = NoHook /\ jcamp = NoHook

Push ==
  \E newState \in HistoryValues, eager \in Eagerness :
    HookReturns("push", newState, "void", push(hist, newState, eager))

Undo ==
  \E eager \in Eagerness :
    LET r == undo(hist, eager) IN HookReturns("undo", <<>>, r.ret, r.hook)

Redo ==
  \E eager \in Eagerness :
    LET r == redo(hist, eager) IN HookReturns("redo", <<>>, r.ret, r.hook)

Reset ==
  \E eager \in Eagerness : HookReturns("reset", <<>>, "void", reset(hist, eager))

\* React renders the component: the queued updates are processed
Render ==
  /\ hist.queue # <<>>
  /\ hist' = [RunQueue(hist, hist.queue) EXCEPT !.queue = <<>>]
  /\ UNCHANGED <<op, arg, res, idCounter, algebraIdCounter, csvIdCounter, converter, now, calls,
                 heap, loader, region, jcamp>>

NextHistory == Push \/ Undo \/ Redo \/ Reset \/ Render

SpecHistory == InitHistory /\ [][NextHistory]_vars

(***************************************************************************)
(* useSpectrumData (src/unnamed/part_013, lines 85-226)                     *)
(*                                                                         *)
(* loader is the mounted hook: spectra, loading and error are its three    *)
(* useState values, and loads keeps every loadText and loadFile call with  *)
(* the await it is suspended at ("readingFile", "parsing") or "settled".   *)
(* Every update of the hook is a plain value or a pure updater, so a       *)
(* render shows the updates applied in call order; each action is one run  *)
(* of a call from one await to the next.  An entry of spectra is a curve   *)
(* with its visible field ("true", "false", or "unset" when absent).  An    *)
(* entry of calls keeps the load it belongs to and the hook before and     *)
(* after the step.                                                         *)
(***************************************************************************)
MaxLoads == 2

MaxEdits == 1

\* lines 121-137, from the extension of the file name
detectFormat(ext) ==
  CASE ext \in {"dx", "jdx", "jcamp"} -> "jcamp"
    [] ext \in {"csv", "tsv", "txt"} -> "csv"
    [] ext = "json" -> "json"
    [] OTHER -> "null"

\* lines 142-147
useSpectrumData(initialSpectra) ==
  [mounted |-> TRUE, spectra |-> initialSpectra, loading |-> FALSE, error |-> "null",
   loads |-> <<>>]

Entry(c) == [curve |-> c, visible |-> "unset"]

Entries(curves) == [k \in 1..Len(curves) |-> Entry(curves[k])]

\* the updater that appends the parsed curves twice
AppendTwice(prev, parsed) == prev \o Entries(parsed) \o Entries(parsed)

\* line 169: prev => [...prev, ...parsed]
AppendParsed(prev, parsed) == prev \o Entries(parsed)

\* the catch block that sets no message
NoMessage(status) == "null"

\* line 171: the message of the error thrown (the status of the parser)
ErrorMessage(status) == status

\* lines 157-167: the parser of the format; a status other than "ok" is
\* an error thrown
ParseAs(format, text, found) ==
  CASE format = "csv" -> parseCsv(text, TRUE, csvIdCounter)
    [] format = "json" ->
         [status |-> parseJson(text, now).status, spectra |-> parseJson(text, now).spectra,
          idCounter |-> csvIdCounter]
    [] OTHER ->
         [status |-> parseJcamp(text, found, now).status,
          spectra |-> parseJcamp(text, found, now).spectra, idCounter |-> csvIdCounter]

\* lines 169-175: the parser has returned or thrown
AfterParse(h, r) ==
  IF r.status = "ok"
  THEN [h EXCEPT !.spectra = AppendParsed(h.spectra, r.spectra), !.loading = FALSE]
  ELSE [h EXCEPT !.error = ErrorMessage(r.status), !.loading = FALSE]

\* lines 150-167: loadText of load n up to its await or, for csv and json,
\* to its end
loadText(h, n, text, format) ==
  LET started == [h EXCEPT !.loading = TRUE, !.error = "null"] IN
  IF format = "jcamp"
  THEN [started EXCEPT !.loads[n].stage = "parsing",
                       !.loads[n].awaits = getConverter(converter).awaits]
  ELSE [AfterParse(started, ParseAs(format, text, "none")) EXCEPT !.loads[n].stage = "settled"]

\* lines 181-188: loadFile of load n up to its return or its await
loadFile(h, n, file) ==
  IF detectFormat(file.ext) = "null"
  THEN [h EXCEPT !.error = "Unsupported file format", !.loads[n].stage = "settled"]
  ELSE [h EXCEPT !.loads[n].stage = "readingFile"]

\* line 199
removeSpectrum(prev, id) == SelectSeq(prev, LAMBDA e : e.curve.id # id)

\* lines 203-207
toggleVisibility(prev, id) ==
  [k \in 1..Len(prev) |->
     IF prev[k].curve.id = id
     THEN [prev[k] EXCEPT !.visible = IF prev[k].visible = "false" THEN "true" ELSE "false"]
     ELSE prev[k]]

\* the texts of the model, by format
TextsOf(format) ==
  CASE format = "csv" -> CsvTexts
    [] format = "json" -> JsonTexts
    [] OTHER -> JcampTexts

\* a csv file, a JCAMP-DX file, a file of an extension the hook does not
\* know
Files ==
  << [ext |-> "csv", text |-> <<CsvLine(0, 1), CsvLine(1, 2)>>],
    [ext |-> "dx", text |-> [points |-> [x |-> <<Zero>>, y |-> <<Zero>>],
                             blocks |-> <<JcampBlock(<<Zero>>, <<Zero>>)>>]],
    [ext |-> "xyz", text |-> <<>>] >>

UserCurve == [id |-> <<"user", 1>>, x |-> <<Zero>>, y |-> <<Zero>>]

\* the calls that are no loads
EditOps == {"addSpectrum", "removeSpectrum", "toggleVisibility", "clear"}

Edits == Len(SelectSeq(calls, LAMBDA c : c.op \in EditOps))

\* a new load: its number is its place in loads
NewLoad(kind, format, text) ==
  [loader EXCEPT !.loads = Append(loader.loads,
     [kind |-> kind, stage |-> "called", format |-> format, text |-> text,
      awaits |-> "none"])]

\* a step of the hook is done: it is kept with the hook before and after
LoaderStep(name, n, r, h) ==
  /\ op' = name
  /\ arg' = n
  /\ res' = [status |-> r.status]
  /\ loader' = h
  /\ csvIdCounter' = r.idCounter
  /\ calls' = Append(calls, [op |-> name, load |-> n, status |-> r.status,
                             parsed |-> r.spectra, before |-> loader, after |-> h])
  /\ UNCHANGED <<idCounter, algebraIdCounter, now, heap, hist, region, jcamp>>

\* a step that runs no parser
NoParse == [status |-> "none", spectra |-> <<>>, idCounter |-> csvIdCounter]

InitLoader ==
  /\ op = "none"
  /\ arg = <<>>
  /\ res = NoRes
  /\ idCounter = 0
  /\ algebraIdCounter = 0
  /\ csvIdCounter = 0 /\ converter = "unchecked" /\ now = 0 /\ calls = <<>> /\ heap = <<>>
  /\ hist = NoHook /\ region = NoHook /\ jcamp = NoHook
  /\ \E initialSpectra \in {<<>>, <<Entry(UserCurve)>>} :
       loader = useSpectrumData(initialSpectra)

LoadText ==
  \E format \in {"csv", "json", "jcamp"} :
    \E text \in TextsOf(format) :
      LET n == Len(loader.loads) + 1 IN
      /\ n <= MaxLoads
      /\ LoaderStep("loadText", n,
           IF format = "jcamp" THEN NoParse ELSE ParseAs(format, text, "none"),
           loadText(NewLoad("loadText", format, text), n, text, format))
      /\ converter' = IF format = "jcamp" THEN getConverter(converter).converter ELSE converter

LoadFile ==
  \E f \in 1..Len(Files) :
    LET n == Len(loader.loads) + 1
        file == Files[f]
    IN
    /\ n <= MaxLoads
    /\ LoaderStep("loadFile", n, NoParse,
         loadFile(NewLoad("loadFile", detectFormat(file.ext), file.text), n, file))
    /\ UNCHANGED converter

\* lines 188-189: file.text() has answered and loadText is called
FileTextAnswers ==
  \E n \in 1..Len(loader.loads) :
    LET l == loader.loads[n] IN
    /\ l.stage = "readingFile"
    /\ LoaderStep("fileText", n,
         IF l.format = "jcamp" THEN NoParse ELSE ParseAs(l.format, l.text, "none"),
         loadText(loader, n, l.text, l.format))
    /\ converter' = IF l.format = "jcamp" THEN getConverter(converter).converter ELSE converter

\* lines 159 and 169-175: parseJcamp has answered, with the converter or
\* without it (part_009 lines 219-230, 254-260): the load that awaits the
\* import learns whether jcampconverter is there, every other load has the
\* module its call found
ParseJcampAnswers ==
  \E n \in 1..Len(loader.loads), found \in {"absent", "present"} :
    LET l == loader.loads[n] IN
    /\ l.stage = "parsing"
    /\ l.awaits # "import" => found = l.awaits
    /\ converter' = IF l.awaits = "import" THEN found ELSE converter
    /\ LoaderStep("parseJcamp", n, ParseAs("jcamp", l.text, found),
         [AfterParse(loader, ParseAs("jcamp", l.text, found))
            EXCEPT !.loads[n].stage = "settled"])

\* lines 194-196
AddSpectrum ==
  /\ Edits < MaxEdits
  /\ LoaderStep("addSpectrum", 0, NoParse,
       [loader EXCEPT !.spectra = Append(loader.spectra, Entry(UserCurve))])
  /\ UNCHANGED converter

\* lines 198-200
RemoveSpectrum ==
  /\ Edits < MaxEdits
  /\ \E k \in 1..Len(loader.spectra) :
       LoaderStep("removeSpectrum", 0, NoParse,
         [loader EXCEPT !.spectra = removeSpectrum(loader.spectra, loader.spectra[k].curve.id)])
  /\ UNCHANGED converter

\* lines 202-208
ToggleVisibility ==
  /\ Edits < MaxEdits
  /\ \E k \in 1..Len(loader.spectra) :
       LoaderStep("toggleVisibility", 0, NoParse,
         [loader EXCEPT !.spectra = toggleVisibility(loader.spectra, loader.spectra[k].curve.id)])
  /\ UNCHANGED converter

\* lines 210-213
Clear ==
  /\ Edits < MaxEdits
  /\ LoaderStep("clear", 0, NoParse, [loader EXCEPT !.spectra = <<>>, !.error = "null"])
  /\ UNCHANGED converter

NextLoader ==
  \/ LoadText
  \/ LoadFile
  \/ FileTextAnswers
  \/ ParseJcampAnswers
  \/ AddSpectrum
  \/ RemoveSpectrum
  \/ ToggleVisibility
  \/ Clear

SpecLoader == InitLoader /\ [][NextLoader]_vars

(***************************************************************************)
(* useRegionSelect (src/src/hooks/useRegionSelect.ts)                      *)
(*                                                                         *)
(* region is the mounted hook: pendingRegion is the value of the last      *)
(* render (<<>> is null, <<xStart, xEnd>> a region), which is also the     *)
(* value the handleMouseUp of that render has closed over; dragStartRef is *)
(* the ref (<<>> is null, <<x>> a number), written at once; queue holds    *)
(* the values of setPendingRegion that no render has shown yet.  The x     *)
(* scale is the one of the tests, domain [0, 100] on range [0, 800].  An   *)
(* entry of calls keeps the event and the region onRegionSelect was        *)
(* called with (<<>> when it was not called).                              *)
(***************************************************************************)
MaxPixel == 1

MaxEvents == 4

\* xScale.invert(px) for domain [0, 100] and range [0, 800]
Invert(px) == FDiv(FromInt(px), FromInt(8))

\* lines 32-37
useRegionSelect(enabled) ==
  [mounted |-> TRUE, enabled |-> enabled, pendingRegion |-> <<>>, dragStartRef |-> <<>>,
   queue |-> <<>>]

\* lines 36, 47, 59, 74: setPendingRegion(value)
setPendingRegion(h, value) == [h EXCEPT !.queue = Append(h.queue, value)]

\* the region from the start of the drag to the pointer, in that order
Unordered(start, dataX) == <<start, dataX>>

\* lines 59-62
Ordered(start, dataX) ==
  <<IF FLess(dataX, start) THEN dataX ELSE start, IF FLess(start, dataX) THEN dataX ELSE start>>

\* lines 39-50
handleMouseDown(h, px, shiftKey) ==
  IF ~h.enabled \/ ~shiftKey THEN h
  ELSE setPendingRegion([h EXCEPT !.dragStartRef = <<Invert(px)>>], <<Invert(px), Invert(px)>>)

\* lines 52-65
handleMouseMove(h, px) ==
  IF h.dragStartRef = <<>> THEN h
  ELSE setPendingRegion(h, Ordered(h.dragStartRef[1], Invert(px)))

\* lines 67-75: the hook after the handler, and the region onRegionSelect
\* was called with
handleMouseUp(h) ==
  IF h.dragStartRef = <<>> \/ h.pendingRegion = <<>> THEN [hook |-> h, called |-> <<>>]
  ELSE [hook |-> setPendingRegion([h EXCEPT !.dragStartRef = <<>>], <<>>),
        called |-> IF FAbs(FSub(h.pendingRegion[2], h.pendingRegion[1])) # Zero
                   THEN h.pendingRegion ELSE <<>>]

\* an event has been handled
Handled(name, px, shiftKey, called, h) ==
  /\ Len(calls) < MaxEvents
  /\ op' = name
  /\ arg' = [px |-> px, shiftKey |-> shiftKey]
  /\ res' = called
  /\ region' = h
  /\ calls' = Append(calls, [op |-> name, px |-> px, shiftKey |-> shiftKey, called |-> called])
  /\ UNCHANGED <<idCounter, algebraIdCounter, csvIdCounter, converter, now, heap, hist, loader,
                 jcamp>>

InitRegion ==
  /\ op = "none"
  /\ arg = <<>>
  /\ res = NoRes
  /\ idCounter = 0
  /\ algebraIdCounter = 0
  /\ csvIdCounter = 0 /\ converter = "unchecked" /\ now = 0 /\ calls = <<>> /\ heap = <<>>
  /\ hist = NoHook /\ loader = NoHook /\ jcamp = NoHook
  /\ \E enabled \in BOOLEAN : region = useRegionSelect(enabled)

MouseDown ==
  \E px \in 0..MaxPixel, shiftKey \in BOOLEAN :
    Handled("mouseDown", px, shiftKey, <<>>, handleMouseDown(region, px, shiftKey))

MouseMove ==
  \E px \in 0..MaxPixel : Handled("mouseMove", px, FALSE, <<>>, handleMouseMove(region, px))

MouseUp ==
  LET r == handleMouseUp(region) IN Handled("mouseUp", 0, FALSE, r.called, r.hook)

\* React renders the component: the last value set is shown, and the
\* handlers of this render close over it
RenderRegion ==
  /\ region.queue # <<>>
  /\ region' = [region EXCEPT !.pendingRegion = region.queue[Len(region.queue)],
                              !.queue = <<>>]
  /\ UNCHANGED <<op, arg, res, idCounter, algebraIdCounter, csvIdCounter, converter, now, calls,
                 heap, hist, loader, jcamp>>

NextRegion == MouseDown \/ MouseMove \/ MouseUp \/ RenderRegion

SpecRegion == InitRegion /\ [][NextRegion]_vars

(***************************************************************************)
(* parseJcamp called while another call is in flight (src/unnamed/part_009 *)
(* lines 219-230 and 254-260)                                              *)
(*                                                                         *)
(* jcamp is the process: installed tells whether import("jcampconverter")  *)
(* can succeed, running holds the calls made, each with what it awaits     *)
(* and, once it has returned, the parser it used ("present" is             *)
(* parseWithConverter, "absent" is parseBasicJcamp).                       *)
(***************************************************************************)
MaxParses == 3

\* a step of a parseJcamp call
JcampStep(name, a, r, running) ==
  /\ op' = name
  /\ arg' = a
  /\ res' = r
  /\ jcamp' = [jcamp EXCEPT !.running = running]
  /\ UNCHANGED <<idCounter, algebraIdCounter, csvIdCounter, now, calls, heap, hist, loader,
                 region>>

InitJcamp ==
  /\ op = "none"
  /\ arg = <<>>
  /\ res = NoRes
  /\ idCounter = 0
  /\ algebraIdCounter = 0
  /\ csvIdCounter = 0 /\ converter = "unchecked" /\ now = 0 /\ calls = <<>> /\ heap = <<>>
  /\ hist = NoHook /\ loader = NoHook /\ region = NoHook
  /\ \E installed \in BOOLEAN :
       jcamp = [mounted |-> TRUE, installed |-> installed, running |-> <<>>]

\* lines 254-255 and 219-223: parseJcamp is called and runs up to its await
ParseJcampCalled ==
  \E text \in JcampTexts :
    /\ Len(jcamp.running) < MaxParses
    /\ JcampStep("parseJcamp", text, NoRes,
         Append(jcamp.running,
                [text |-> text, stage |-> "awaiting",
                 awaits |-> getConverter(converter).awaits, used |-> "none"]))
    /\ converter' = getConverter(converter).converter

\* lines 224-228: the import has answered
ImportAnswers ==
  /\ converter = "pending"
  /\ converter' = IF jcamp.installed THEN "present" ELSE "absent"
  /\ JcampStep("import", <<>>, NoRes, jcamp.running)

\* lines 229 and 255-259: getConverter has answered call n, which parses
ParseJcampResumes ==
  \E n \in 1..Len(jcamp.running) :
    LET c == jcamp.running[n]
        module == IF c.awaits = "import" THEN converter ELSE c.awaits
    IN
    /\ c.stage = "awaiting"
    /\ c.awaits = "import" => converter # "pending"
    /\ JcampStep("parseJcampReturns", n, parseJcamp(c.text, module, now),
         [jcamp.running EXCEPT ![n].stage = "returned", ![n].used = module])
    /\ UNCHANGED converter

NextJcamp == ParseJcampCalled \/ ImportAnswers \/ ParseJcampResumes

SpecJcamp == InitJcamp /\ [][NextJcamp]_vars

(***************************************************************************)
(* The core as a whole: one call of any of its operations.                 *)
(***************************************************************************)
Init == InitSpc \/ InitLttb \/ InitSearch \/ InitProc \/ InitPeaks \/ InitAlgebra

Next == NextSpc \/ NextLttb \/ NextSearch \/ NextProc \/ NextPeaks \/ NextAlgebra

Spec == Init /\ [][Next]_vars

(***************************************************************************)
(* Claims about parseSpc                                                   *)
(***************************************************************************)
SpcDone == op = "parseSpc" /\ ~Pending

ValidHeader == ~TooSmall(arg.len) /\ SupportedVersion(arg.version)

SampleWidth(buf) == IF HasFlag(buf.flags, TSPREC) THEN 2 ELSE 4

\* the samples a curve announces: those of its sub-header, else of the header
Announced(buf, s) ==
  IF HasFlag(buf.flags, TMULTI)
  THEN (IF At(buf.subs, s).n # 0 THEN At(buf.subs, s).n ELSE buf.npoints)
  ELSE buf.npoints

\* the bytes of curve s: its sub-header, its x values, its y values
CurveBytes(buf, s) ==
  (IF HasFlag(buf.flags, TMULTI) THEN SubHeaderSize ELSE 0)
  + (IF HasFlag(buf.flags, TXVALS) /\ HasFlag(buf.flags, TMULTI) THEN 4 * Announced(buf, s) ELSE 0)
  + SampleWidth(buf) * Announced(buf, s)

RECURSIVE BytesBefore(_, _)
BytesBefore(buf, s) ==
  IF s = 0
  THEN minSize + (IF HasFlag(buf.flags, TXVALS) /\ ~HasFlag(buf.flags, TMULTI)
                  THEN 4 * buf.npoints ELSE 0)
  ELSE BytesBefore(buf, s - 1) + CurveBytes(buf, s - 1)

\* the buffer holds every sub-file the header announces, whole
ContainsAll(buf) == buf.len >= BytesBefore(buf, buf.numSpectra)

\* the cells of a sample array that a read wrote
NumRead(a) == Cardinality({i \in 1..Len(a) : a[i] # Zero})

\* C1: after a valid header parseSpc never fails because the buffer ends
\* mid-read: it returns curves or fails with 'no spectra found'.
C1_NeverThrowsMidRead ==
  (SpcDone /\ ValidHeader) => res.status \in {"ok", "noSpectra"}

\* C2: every curve parseSpc returns has x and y of the same length, the
\* sample count resolved for that curve.
C2_SameLength ==
  (SpcDone /\ res.status = "ok") =>
    \A k \in 1..Len(res.spectra) :
      /\ Len(res.spectra[k].x) = Len(res.spectra[k].y)
      /\ Len(res.spectra[k].y) = Announced(arg, res.spectra[k].index)

\* C3: a buffer shorter than 512 bytes fails as 'too small', a buffer of at
\* least 512 bytes whose version byte is neither 0x4B nor 0x4D fails as
\* 'unsupported version'; neither returns a curve and the two differ.
C3_HeaderErrors ==
  SpcDone =>
    /\ arg.len < 512 => (res.status = "tooSmall" /\ res.spectra = <<>> /\ idCounter = 0)
    /\ (arg.len >= 512 /\ arg.version \notin {75, 77}) =>
         (res.status = "unsupportedVersion" /\ res.spectra = <<>> /\ idCounter = 0)
    /\ res.status = "tooSmall" => arg.len < 512
    /\ res.status = "unsupportedVersion" => arg.version \notin {75, 77}

C3_Witness ==
  SpcDone /\ arg.len = 511 /\ arg.version = 75 /\ res.status = "tooSmall"

\* C4: with a valid header parseSpc returns exactly 1 curve when the
\* multi-curve flag is clear and exactly numSpectra curves when it is set and
\* the buffer holds all numSpectra sub-files; it never returns an empty list,
\* a decode of zero curves fails with 'no spectra found'.
C4_CurveCount ==
  (SpcDone /\ ValidHeader) =>
    /\ ~HasFlag(arg.flags, TMULTI) => (res.status = "ok" /\ Len(res.spectra) = 1)
    /\ (HasFlag(arg.flags, TMULTI) /\ ContainsAll(arg) /\ arg.numSpectra > 0) =>
         (res.status = "ok" /\ Len(res.spectra) = arg.numSpectra)
    /\ res.status = "ok" => Len(res.spectra) >= 1
    /\ (HasFlag(arg.flags, TMULTI) /\ arg.numSpectra = 0) => res.status = "noSpectra"

\* C5: a curve whose samples end with the buffer is truncated: its y holds
\* exactly the samples that were read, and so does an x read from the file.
C5_TruncatedToRead ==
  (SpcDone /\ res.status = "ok") =>
    \A k \in 1..Len(res.spectra) :
      /\ Len(res.spectra[k].y) = NumRead(res.spectra[k].y)
      /\ HasFlag(arg.flags, TXVALS) => Len(res.spectra[k].x) = NumRead(res.spectra[k].x)

(***************************************************************************)
(* Claims about lttbDownsample                                             *)
(***************************************************************************)
LttbDone == op = "lttbDownsample" /\ ~Pending

WindowSize == arg.endIdx - arg.startIdx

EndpointsAndCount ==
  /\ Len(res.points) = arg.targetCount
  /\ res.points[1].index = arg.startIdx
  /\ res.points[Len(res.points)].index = arg.endIdx - 1

\* C6 as stated: for every targetCount and every window of more than
\* targetCount samples the result has exactly targetCount points, the first
\* from startIdx and the last from endIdx - 1.
C6_AnyTargetCount ==
  (LttbDone /\ WindowSize > arg.targetCount) => EndpointsAndCount

\* C6 amended: the same for every targetCount >= 2.
C6_TargetCountAtLeast2 ==
  (LttbDone /\ arg.targetCount >= 2 /\ WindowSize > arg.targetCount) => EndpointsAndCount

C6_Witness ==
  /\ LttbDone /\ arg.targetCount = 4 /\ arg.startIdx = 1 /\ arg.endIdx = 6
  /\ Len(res.points) = 4 /\ res.points[1].index = 1 /\ res.points[4].index = 5

(***************************************************************************)
(* Claims about binarySearchClosest                                        *)
(***************************************************************************)
SearchDone == op = "binarySearchClosest" /\ ~Pending

Dist(i) == Abs(At(arg.arr, i) - arg.target)

\* C7: for a sorted array (ascending or descending) and any target the
\* result is an index of [0, length) whose sample is as close to the target
\* as the closest sample a linear scan finds; when the two samples that
\* bracket the target are equally close it is the lower index of the two;
\* for length 0 it is -1.
C7_ClosestIndex ==
  SearchDone =>
    /\ arg.length = 0 => res.index = -1
    /\ arg.length > 0 =>
         /\ res.index \in 0..arg.length - 1
         /\ \A j \in 0..arg.length - 1 : Dist(res.index) <= Dist(j)
         /\ \A i \in 0..arg.length - 2 :
              (At(arg.arr, i) # At(arg.arr, i + 1) /\ Dist(i) = Dist(i + 1)) => res.index = i

C7_Witness ==
  /\ SearchDone /\ arg.arr = <<3, 1, 0>> /\ arg.target = 2 /\ arg.length = 3
  /\ res.index = 0

(***************************************************************************)
(* Claims about the signal-processing operations                           *)
(***************************************************************************)
ProcDone ==
  /\ op \in {"baselineRubberBand", "normalizeArea", "smoothSavitzkyGolay",
             "derivative1st", "derivative2nd"}
  /\ ~Pending

\* fewer samples than the operation needs (x and y of one length)
TooFewSamples ==
  \/ op = "baselineRubberBand" /\ Len(arg.y) < 3
  \/ op = "normalizeArea" /\ Len(arg.x) = Len(arg.y) /\ Len(arg.y) < 2
  \/ op = "smoothSavitzkyGolay" /\ Len(arg.y) < arg.windowSize
  \/ op = "derivative1st" /\ Len(arg.x) = Len(arg.y) /\ Len(arg.y) < 2
  \/ op = "derivative2nd" /\ Len(arg.x) = Len(arg.y) /\ Len(arg.y) < 3

\* C8: an operation given fewer samples than it needs returns a copy of its
\* input samples.
C8_ShortInputCopied ==
  (ProcDone /\ TooFewSamples) => res.out = CopyOf(arg.y)

\* C9: for at least 3 samples every output sample of baselineRubberBand is
\* >= 0 (the baseline is nowhere above the input) and the first and the last
\* output samples are 0.
C9_BaselineBelowInput ==
  (op = "baselineRubberBand" /\ ~Pending /\ Len(arg.y) >= 3) =>
    /\ \A k \in 1..Len(res.out) : FLeq(Zero, res.out[k])
    /\ res.out[1] = Zero
    /\ res.out[Len(res.out)] = Zero

(***************************************************************************)
(* Claims about detectPeaks                                                *)
(***************************************************************************)
PeaksDone == op = "detectPeaks" /\ ~Pending

MinDistance == arg.options.minDistance

IsKept(c) == \E k \in 1..Len(res.kept) : res.kept[k] = c

CandidateSet == {res.candidates[k] : k \in 1..Len(res.candidates)}

\* the returned peaks are pairwise at least minDistance positions apart
PeaksApart ==
  \A j, k \in 1..Len(res.peaks) :
    j # k => Abs(res.peaks[j].index - res.peaks[k].index) >= MinDistance

\* a candidate is left out of the kept list only for a kept peak of greater
\* or equal prominence fewer than minDistance positions away
DroppedForStronger ==
  \A c \in CandidateSet :
    ~IsKept(c) =>
      \E d \in CandidateSet :
        IsKept(d) /\ d.prom >= c.prom /\ Abs(d.index - c.index) < MinDistance

\* C10 as stated: the returned peaks are at least minDistance apart, a
\* candidate is dropped only for a stronger kept peak nearby, and of two
\* candidates closer than minDistance the more prominent one is the one kept.
C10_MoreProminentKept ==
  PeaksDone =>
    /\ PeaksApart
    /\ DroppedForStronger
    /\ \A c, d \in CandidateSet :
         (c.prom > d.prom /\ Abs(c.index - d.index) < MinDistance) => (IsKept(c) /\ ~IsKept(d))

\* C10 amended: the returned peaks are at least minDistance apart, a
\* candidate is dropped only for a stronger kept peak nearby, and of two
\* candidates closer than minDistance at most one is kept, the less prominent
\* one only when the more prominent one was itself dropped.
C10_GreedyByProminence ==
  PeaksDone =>
    /\ PeaksApart
    /\ DroppedForStronger
    /\ \A c, d \in CandidateSet :
         (c # d /\ Abs(c.index - d.index) < MinDistance) => ~(IsKept(c) /\ IsKept(d))
    /\ \A c, d \in CandidateSet :
         (c.prom > d.prom /\ Abs(c.index - d.index) < MinDistance /\ IsKept(d)) =>
           \E e \in CandidateSet :
             IsKept(e) /\ e.prom >= c.prom /\ Abs(e.index - c.index) < MinDistance

C10_Witness ==
  /\ PeaksDone /\ arg.y = <<0, 2, 1, 2, 0, 1, 0>> /\ MinDistance = 3
  /\ ~arg.options.hasMaxPeaks
  /\ Len(res.candidates) = 3 /\ Len(res.kept) = 2
  /\ res.kept[1].index = 1 /\ res.kept[2].index = 5

\* the candidate a returned peak was made from
ProminenceOf(index) ==
  (CHOOSE c \in CandidateSet : c.index = index).prom

PeakIndices == {res.peaks[k].index : k \in 1..Len(res.peaks)}

KeptIndices == {res.kept[k].index : k \in 1..Len(res.kept)}

\* C11: whenever maxPeaks is given, detectPeaks returns at most maxPeaks
\* peaks, and they are the maxPeaks most prominent of the peaks that survive
\* the prominence and minDistance filters.
C11_AtMostMaxPeaks ==
  (PeaksDone /\ arg.options.hasMaxPeaks) =>
    /\ Len(res.peaks) <= arg.options.maxPeaks
    /\ Cardinality(PeakIndices) = Min2(arg.options.maxPeaks, Len(res.kept))
    /\ PeakIndices \subseteq KeptIndices
    /\ \A i \in PeakIndices : \A j \in KeptIndices \ PeakIndices :
         ProminenceOf(i) >= ProminenceOf(j)

\* C12: the peaks detectPeaks returns are in ascending order of x, for x in
\* ascending and in descending order, whatever the prominence sort, the
\* distance filter and the maxPeaks truncation selected.
C12_AscendingX ==
  PeaksDone =>
    \A k \in 1..Len(res.peaks) - 1 : res.peaks[k].x <= res.peaks[k + 1].x

\* descending x, two peaks selected by maxPeaks with the more prominent one
\* at the higher x
C12_Witness ==
  /\ PeaksDone /\ arg.x = <<70, 60, 50, 40, 30, 20, 10>>
  /\ arg.y = <<0, 2, 0, 1, 0, 1, 0>>
  /\ arg.options.hasMaxPeaks /\ arg.options.maxPeaks = 2 /\ MinDistance = 1
  /\ Len(res.kept) = 3 /\ res.kept[1].index = 1
  /\ Len(res.peaks) = 2 /\ res.peaks[1].x = 40 /\ res.peaks[2].x = 60

(***************************************************************************)
(* Claims about the curve algebra                                          *)
(***************************************************************************)
InterpDone == op = "interpolateToGrid" /\ ~Pending

SourceN == Min2(Len(arg.spectrum.x), Len(arg.spectrum.y))

StrictlyMonotone(x) ==
  \/ \A i \in 1..Len(x) - 1 : FLess(x[i], x[i + 1])
  \/ \A i \in 1..Len(x) - 1 : FLess(x[i + 1], x[i])

Between(a, t, b) == (FLeq(a, t) /\ FLeq(t, b)) \/ (FLeq(b, t) /\ FLeq(t, a))

InsideSource(t) == Between(arg.spectrum.x[1], t, arg.spectrum.x[SourceN])

\* the line through source samples i and i + 1, evaluated at t
LineThrough(i, t) ==
  LET x == arg.spectrum.x
      y == arg.spectrum.y
  IN FAdd(y[i], FMul(FDiv(FSub(t, x[i]), FSub(x[i + 1], x[i])), FSub(y[i + 1], y[i])))

\* x is newX, every target inside the source range lies on the line through
\* two adjacent source samples that bracket it, and a target equal to one of
\* the source x in exact gets that sample's y
Interpolates(exact) ==
  /\ res.curve.x = arg.newX
  /\ Len(res.curve.y) = Len(arg.newX)
  /\ \A j \in 1..Len(arg.newX) :
       InsideSource(arg.newX[j]) =>
         /\ \E i \in 1..SourceN - 1 :
              /\ Between(arg.spectrum.x[i], arg.newX[j], arg.spectrum.x[i + 1])
              /\ res.curve.y[j] = LineThrough(i, arg.newX[j])
         /\ \A i \in exact :
              arg.newX[j] = arg.spectrum.x[i] => res.curve.y[j] = arg.spectrum.y[i]

ZeroFilled == res.curve.x = arg.newX /\ res.curve.y = Zeros(Len(arg.newX))

\* C13 as stated: for a source of at least 2 samples with strictly monotone
\* x the result has x = newX and, for every target inside the source range,
\* the linear interpolation between the two adjacent bracketing samples, so
\* that a target equal to any source x gets that sample's y; for a source of
\* fewer than 2 samples y is all zeros with the length of newX.
C13_ExactAtEverySample ==
  InterpDone =>
    /\ (SourceN >= 2 /\ StrictlyMonotone(arg.spectrum.x)) => Interpolates(1..SourceN)
    /\ SourceN < 2 => ZeroFilled

\* C13 amended: the same, a target equal to a source x getting exactly that
\* sample's y for every source sample but the last one.
C13_ExactBeforeLastSample ==
  InterpDone =>
    /\ (SourceN >= 2 /\ StrictlyMonotone(arg.spectrum.x)) => Interpolates(1..SourceN - 1)
    /\ SourceN < 2 => ZeroFilled

\* a descending source, one target on its last sample and one between its
\* first two samples
C13_Witness ==
  /\ InterpDone
  /\ arg.spectrum.x = <<FromInt(4), FromInt(2), Zero>>
  /\ arg.spectrum.y = <<Zero, FromInt(Pow2(MantBits)), FromInt(-1)>>
  /\ arg.newX = <<Zero, FromInt(3)>>
  /\ res.curve.y = <<Zero, FromInt(Pow2(MantBits - 1))>>

(***************************************************************************)
(* Claims about the process                                                *)
(***************************************************************************)
\* the curves an algebra call was given
SourcesOf(call) ==
  IF call.op \in {"differenceSpectrum", "addSpectra", "residualSpectrum"}
  THEN {call.arg[1], call.arg[2]}
  ELSE IF call.op \in {"scaleSpectrum", "interpolateToGrid"} THEN {call.arg[1]}
  ELSE {}

\* C14: across any sequence of decoder and algebra calls of one process,
\* every curve that is created has an id different from the id of every
\* other curve created so far and from the ids of the curves it was derived
\* from.
C14_FreshIds ==
  /\ \A j, k \in 1..Len(Made) : j # k => Made[j].id # Made[k].id
  /\ \A c \in 1..Len(calls) :
       \A k \in 1..Len(calls[c].res.spectra) :
         \A src \in SourcesOf(calls[c]) : calls[c].res.spectra[k].id # src.id

\* C15: every core operation is a pure function: two calls with identical
\* inputs return identical results, and no call changes state that a later
\* call can observe.
C15_Pure ==
  \A j, k \in 1..Len(calls) :
    (calls[j].op = calls[k].op /\ calls[j].arg = calls[k].arg) => calls[j].res = calls[k].res

(***************************************************************************)
(* Claims about the guards against division by zero                        *)
(***************************************************************************)
Constant(y) == \A i, j \in 1..Len(y) : y[i] = y[j]

\* the exact trapezoidal area of |y| over x is 0
ZeroArea(x, y) ==
  \A i \in 1..Min2(Len(x), Len(y)) - 1 :
    x[i] = x[i + 1] \/ (y[i] = 0 /\ y[i + 1] = 0)

NormDone == op \in {"normalizeMinMax", "normalizeSNV", "normalizeArea"} /\ ~Pending

\* a constant input gives all zeros (normalizeMinMax, normalizeSNV), a
\* zero-area input comes back unchanged (normalizeArea)
NormalizationsGuarded ==
  NormDone =>
    /\ (op = "normalizeMinMax" /\ Constant(arg.y)) => res.out = Zeros(Len(arg.y))
    /\ (op = "normalizeSNV" /\ Constant(arg.y)) => res.out = Zeros(Len(arg.y))
    /\ (op = "normalizeArea" /\ ZeroArea(arg.x, arg.y)) => res.out = CopyOf(arg.y)

PairedLength == Min2(Len(arg.a.y), Len(arg.b.y))

\* no paired samples or a constant series gives exactly 0
CorrelationGuarded ==
  (op = "correlationCoefficient" /\ ~Pending) =>
    ((PairedLength = 0
      \/ Constant(SubSeq(arg.a.y, 1, PairedLength))
      \/ Constant(SubSeq(arg.b.y, 1, PairedLength))) => res.r = Zero)

\* C17: no routine divides by a zero range, variance or area: normalizeMinMax
\* of a constant input returns all zeros, normalizeSNV of a zero-deviation
\* input returns all zeros, normalizeArea of a zero-area input returns the
\* input unchanged, and correlationCoefficient returns exactly 0 when the
\* paired length is 0 or either series has zero variance.
C17_ZeroGuards == NormalizationsGuarded /\ CorrelationGuarded

(***************************************************************************)
(* Claims about the array objects                                          *)
(***************************************************************************)
\* the references the arguments of the call hold
ArgumentRefs ==
  IF op \in ArrayOps1 \/ op = "smoothSavitzkyGolay[]" THEN {arg.y}
  ELSE IF op \in ArrayOps2 THEN {arg.x, arg.y}
  ELSE IF op \in CurveOps2 THEN {arg.a.x, arg.a.y, arg.b.x, arg.b.y}
  ELSE IF op = "scaleSpectrum[]" THEN {arg.a.x, arg.a.y}
  ELSE {arg.a.x, arg.a.y, arg.newX}

\* C16: no signal-processing or curve-algebra operation writes to the x or y
\* arrays of its inputs, and the arrays in its result are newly allocated,
\* never an array object of the input, on normal and on degenerate-input
\* paths alike.
C16_InputsKeptResultsNew ==
  [][ /\ \A r \in 1..Len(heap) : heap'[r] = heap[r]
      /\ \A k \in 1..Len(res'.refs) : res'.refs[k] \notin 1..Len(heap)
      /\ \A j, k \in 1..Len(res'.refs) : j # k => res'.refs[j] # res'.refs[k] ]_vars

\* smoothSavitzkyGolay on its degenerate path (fewer samples than the
\* window): the result is a copy of y in an array of its own
C16_Witness ==
  /\ op = "smoothSavitzkyGolay[]" /\ ~Pending
  /\ arg.windowSize = 3 /\ heap[2] = <<2, 0>>
  /\ res.refs = <<3>> /\ heap[3] = CopyOf(<<2, 0>>) /\ Len(heap) = 3
  /\ ArgumentRefs = {2}

(***************************************************************************)
(* C18: the evenly spaced x of a single-curve SPC file                      *)
(***************************************************************************)
\* a single-curve file without stored x values and with at least one point
UniformGridCase ==
  /\ SpcDone
  /\ ValidHeader
  /\ ~HasFlag(arg.flags, TXVALS)
  /\ ~HasFlag(arg.flags, TMULTI)
  /\ arg.npoints >= 1

\* (lastX - firstX) / (pointCount - 1), every operation rounded
GridStep == FDiv(FSub(FromInt(arg.lastX), FromInt(arg.firstX)), FromInt(arg.npoints - 1))

\* x has pointCount entries, x[i] = firstX + i * step as computed, and
\* x[0] = firstX; for one point x = [firstX]
GridAsComputed ==
  /\ res.status = "ok"
  /\ Len(res.spectra) = 1
  /\ Len(res.spectra[1].x) = arg.npoints
  /\ res.spectra[1].x[1] = FromInt(arg.firstX)
  /\ arg.npoints = 1 => res.spectra[1].x = <<FromInt(arg.firstX)>>
  /\ arg.npoints > 1 =>
       \A i \in 0..(arg.npoints - 1) :
         res.spectra[1].x[i + 1] = FAdd(FromInt(arg.firstX), FMul(FromInt(i), GridStep))

Magnitude(k) == IF k < 0 THEN -k ELSE k

\* |v - lastX| is at most four units of roundoff of |firstX| + |lastX|
NearLastX(v) ==
  Magnitude(v[1] - arg.lastX * v[2]) * Pow2(MantBits)
    <= 4 * (Magnitude(arg.firstX) + Magnitude(arg.lastX)) * v[2]

\* C18 as stated: the grid is firstX + i * (lastX - firstX) / (pointCount - 1),
\* its first entry is firstX and its last entry is lastX; one point gives
\* [firstX].
C18_GridEndsAtLastX ==
  UniformGridCase =>
    /\ GridAsComputed
    /\ arg.npoints > 1 => res.spectra[1].x[arg.npoints] = FromInt(arg.lastX)

\* C18 amended: the grid is computed as firstX + i * step in rounded
\* arithmetic, its first entry is firstX exactly, and its last entry is
\* lastX up to rounding error; one point gives [firstX].
C18_GridEndsNearLastX ==
  UniformGridCase =>
    /\ GridAsComputed
    /\ arg.npoints > 1 => NearLastX(res.spectra[1].x[arg.npoints])

\* a descending grid of several points whose last entry is not lastX
C18_Witness ==
  /\ UniformGridCase
  /\ arg.npoints > 1
  /\ arg.firstX > arg.lastX
  /\ res.spectra[1].x[arg.npoints] # FromInt(arg.lastX)
  /\ NearLastX(res.spectra[1].x[arg.npoints])

(***************************************************************************)
(* C19: useHistory as a linear timeline with a cursor                       *)
(***************************************************************************)
\* the timeline after one more call: a push cuts the line at the cursor and
\* appends, an undo or a redo that returned true moves the cursor by one
TimelineStep(t, c) ==
  CASE c.op = "push" ->
         [line |-> Append(SubSeq(t.line, 1, t.cursor), c.arg), cursor |-> t.cursor + 1]
    [] c.op = "undo" /\ c.res -> [t EXCEPT !.cursor = t.cursor - 1]
    [] c.op = "redo" /\ c.res -> [t EXCEPT !.cursor = t.cursor + 1]
    [] OTHER -> t

RECURSIVE TimelineAfter(_, _)
TimelineAfter(t, log) ==
  IF log = <<>> THEN t ELSE TimelineAfter(TimelineStep(t, Head(log)), Tail(log))

\* the timeline of the calls made so far
Timeline ==
  TimelineAfter([line |-> <<calls[1].before.initialState>>, cursor |-> 1], calls)

\* the value under the cursor
Present(t) == IF t.cursor \in 1..Len(t.line) THEN t.line[t.cursor] ELSE "nothing"

\* only push, undo and redo were called, each on a hook with nothing
\* pending and with fewer than maxDepth entries, and the last call is
\* committed
CommittedOneByOne ==
  /\ calls # <<>>
  /\ hist.mounted
  /\ hist.queue = <<>>
  /\ Len(hist.undoStack) < hist.maxDepth
  /\ \A i \in 1..Len(calls) :
       /\ calls[i].op \in {"push", "undo", "redo"}
       /\ calls[i].before.queue = <<>>
       /\ Len(calls[i].before.undoStack) < hist.maxDepth

LastCall == calls[Len(calls)]

\* the last two calls were an undo and a redo that both returned true
UndoThenRedo ==
  /\ Len(calls) >= 2
  /\ calls[Len(calls) - 1].op = "undo" /\ calls[Len(calls) - 1].res
  /\ LastCall.op = "redo" /\ LastCall.res

\* C19: after push, undo and redo calls committed one by one within
\* maxDepth, state is the value under the cursor of the timeline (an undo
\* that succeeds steps back over the latest push not yet undone, a redo that
\* succeeds steps forward to the value last undone), an undo followed by a
\* redo restores state and both stacks, and a push leaves nothing to redo.
C19_LinearTimeline ==
  CommittedOneByOne =>
    /\ hist.state = Present(Timeline)
    /\ LastCall.op = "push" => (hist.redoStack = <<>> /\ ~canRedo(hist))
    /\ UndoThenRedo =>
         /\ hist.state = calls[Len(calls) - 1].before.state
         /\ hist.undoStack = calls[Len(calls) - 1].before.undoStack
         /\ hist.redoStack = calls[Len(calls) - 1].before.redoStack

(***************************************************************************)
(* C20: the undo stack holds at most maxDepth states                        *)
(***************************************************************************)
\* every call has been rendered
Settled == hist.mounted /\ hist.queue = <<>>

\* the last call was a push on a settled hook whose undo stack was full
PushAtLimit ==
  /\ calls # <<>>
  /\ LastCall.op = "push"
  /\ LastCall.before.queue = <<>>
  /\ Len(LastCall.before.undoStack) = hist.maxDepth

\* C20: once the calls made so far are rendered, the undo stack and
\* undoCount are at most maxDepth, and a push on a full stack has dropped
\* the oldest state and kept the newer ones.
C20_AtMostMaxDepth ==
  Settled =>
    /\ Len(hist.undoStack) <= hist.maxDepth
    /\ hist.undoCount <= hist.maxDepth
    /\ PushAtLimit =>
         hist.undoStack = Append(Tail(LastCall.before.undoStack), LastCall.before.state)

(***************************************************************************)
(* C21: undo and redo return false exactly when there is nothing to do     *)
(***************************************************************************)
\* the last call was an undo or a redo made with nothing pending
UndoOrRedoLast ==
  /\ calls # <<>>
  /\ hist.mounted
  /\ LastCall.op \in {"undo", "redo"}
  /\ LastCall.before.queue = <<>>

\* the stack the last call popped, as it was before the call
StackOfLastCall ==
  IF LastCall.op = "undo" THEN LastCall.before.undoStack ELSE LastCall.before.redoStack

\* what the hook shows and holds, but for its queue
Shown(h) ==
  <<h.state, h.undoStack, h.redoStack, canUndo(h), canRedo(h), h.undoCount, h.redoCount>>

\* C21: undo (redo) returns false exactly when the undo (redo) stack is
\* empty, whatever values are stored, and a call that returned false has
\* changed neither state, nor a stack, nor canUndo, canRedo, undoCount or
\* redoCount.
C21_FalseExactlyWhenEmpty ==
  UndoOrRedoLast =>
    /\ (LastCall.res = FALSE) <=> (StackOfLastCall = <<>>)
    /\ (LastCall.res = FALSE) => Shown(hist) = Shown(LastCall.before)

(***************************************************************************)
(* C22: a load of useSpectrumData that fails                               *)
(***************************************************************************)
\* the loads that have not settled in hook h
InFlight(h) == {n \in 1..Len(h.loads) : h.loads[n].stage # "settled"}

\* step c is the one in which its load fails: the parser threw, or
\* loadFile found no format for the extension
FailsIn(c) ==
  \/ c.op \in {"loadText", "fileText", "parseJcamp"} /\ c.status \notin {"ok", "none"}
  \/ c.op = "loadFile" /\ c.after.loads[c.load].stage = "settled"

\* C22: no step of a load that fails changes the spectra list, the step in
\* which it fails leaves error a message (not null), and loading is false
\* after it unless another load is in flight.
C22_FailedLoadKeepsSpectra ==
  loader.mounted =>
    \A i \in 1..Len(calls) :
      FailsIn(calls[i]) =>
        /\ \A j \in 1..i :
             calls[j].load = calls[i].load => calls[j].after.spectra = calls[j].before.spectra
        /\ calls[i].after.error # "null"
        /\ InFlight(calls[i].after) = {} => calls[i].after.loading = FALSE

\* a JCAMP-DX text loaded while curves are shown has failed in the parser,
\* and a file of an unknown extension has been refused
C22_Witness ==
  /\ loader.mounted
  /\ \E i \in 1..Len(calls) :
       /\ FailsIn(calls[i])
       /\ calls[i].op = "parseJcamp"
       /\ calls[i].before.spectra # <<>>
       /\ calls[i].before.loading
  /\ \E i \in 1..Len(calls) : FailsIn(calls[i]) /\ calls[i].op = "loadFile"

(***************************************************************************)
(* C23: loading is true exactly while a load is in flight                  *)
(***************************************************************************)
\* C23: loading is true whenever a loadFile or loadText call has started
\* and not settled, and false whenever none is in progress.
C23_LoadingWhileInFlight ==
  loader.mounted => (loader.loading <=> InFlight(loader) # {})

(***************************************************************************)
(* C27: loads that overlap lose and duplicate nothing                       *)
(***************************************************************************)
\* the steps in which a load is called, and those in which one settles
StartSteps == {i \in 1..Len(calls) : calls[i].op \in {"loadText", "loadFile"}}

SettleSteps ==
  {i \in 1..Len(calls) : calls[i].after.loads[calls[i].load].stage = "settled"}

\* only loads were called, at least two, all of them before the first one
\* settled, and all have settled
AllOverlappedAndSettled ==
  /\ loader.mounted
  /\ Len(loader.loads) >= 2
  /\ InFlight(loader) = {}
  /\ \A i \in 1..Len(calls) : calls[i].load # 0
  /\ \A i \in StartSteps, j \in SettleSteps : i <= j

RECURSIVE AppendedBy(_, _)
\* the curves of the loads that succeeded in the steps from i on, in the
\* order of the steps
AppendedBy(log, i) ==
  IF i > Len(log) THEN <<>>
  ELSE (IF log[i].status = "ok" THEN Entries(log[i].parsed) ELSE <<>>) \o AppendedBy(log, i + 1)

\* C27: once loads that were all started before any settled have all
\* settled, the spectra list is the list from before followed by the curves
\* of every load that succeeded, each once, in the order the loads
\* completed.
C27_NothingLostOrDuplicated ==
  AllOverlappedAndSettled =>
    loader.spectra = calls[1].before.spectra \o AppendedBy(calls, 1)

\* two loads that both succeeded with curves, the one called last
\* completing first
C27_Witness ==
  /\ AllOverlappedAndSettled
  /\ \E i, j \in SettleSteps :
       /\ i < j
       /\ calls[i].load > calls[j].load
       /\ calls[i].status = "ok" /\ calls[i].parsed # <<>>
       /\ calls[j].status = "ok" /\ calls[j].parsed # <<>>

(***************************************************************************)
(* C24: what creates a pending region and what calls onRegionSelect        *)
(***************************************************************************)
\* event c is a mouse-down with Shift held on an enabled hook
StartsDrag(c) == c.op = "mouseDown" /\ c.shiftKey /\ region.enabled

\* a region is shown or is waiting to be shown
RegionPending ==
  region.pendingRegion # <<>> \/ \E k \in 1..Len(region.queue) : region.queue[k] # <<>>

\* the events in which onRegionSelect was called
Callbacks == {i \in 1..Len(calls) : calls[i].called # <<>>}

\* C24: a region is pending only after a mouse-down with Shift on an
\* enabled hook; onRegionSelect is called only in a mouse-up, with such a
\* mouse-down before it and after the call before, and only with a region
\* of xStart < xEnd.
C24_OnlyShiftDragSelects ==
  region.mounted =>
    /\ RegionPending => \E i \in 1..Len(calls) : StartsDrag(calls[i])
    /\ \A j \in Callbacks :
         /\ calls[j].op = "mouseUp"
         /\ \E i \in 1..(j - 1) :
              StartsDrag(calls[i]) /\ \A k \in Callbacks : ~(i < k /\ k < j)
         /\ FLess(calls[j].called[1], calls[j].called[2])

\* a drag to the left has ended in a call of onRegionSelect
C24_Witness ==
  /\ region.mounted
  /\ \E j \in Callbacks :
       \E i \in 1..(j - 1) :
         /\ StartsDrag(calls[i])
         /\ calls[i].px > 0
         /\ calls[j].called = <<Zero, Invert(calls[i].px)>>

(***************************************************************************)
(* C28: every mouse-up ends the drag                                        *)
(***************************************************************************)
\* a mouse-down with Shift on an enabled hook has had no mouse-up since
DragOpen ==
  \E i \in 1..Len(calls) :
    StartsDrag(calls[i]) /\ \A j \in (i + 1)..Len(calls) : calls[j].op # "mouseUp"

\* C28: once the mouse-up after a Shift+mouse-down has been handled and
\* rendered, pendingRegion is null and stays null through later mouse moves
\* until the next Shift+mouse-down, whether or not a render came between
\* the events.
C28_MouseUpEndsDrag ==
  (region.mounted /\ region.queue = <<>> /\ ~DragOpen) => region.pendingRegion = <<>>

(***************************************************************************)
(* C25: which parser parseJcamp uses                                       *)
(***************************************************************************)
\* C25: every call of parseJcamp that has returned has parsed with
\* jcampconverter if the library can be imported and with the built-in
\* parser if it cannot, also a call made while the import of the first call
\* was pending.
C25_ConverterWheneverImportable ==
  jcamp.mounted =>
    \A n \in 1..Len(jcamp.running) :
      jcamp.running[n].stage = "returned" =>
        jcamp.running[n].used = IF jcamp.installed THEN "present" ELSE "absent"

(***************************************************************************)
(* C26: calls made in one batch and calls made one per render               *)
(***************************************************************************)
\* call c made on hook h and rendered before anything else happens
OnePerRender(h, c) ==
  LET r == CASE c.op = "push" -> [hook |-> push(h, c.arg, FALSE), ret |-> c.res]
             [] c.op = "undo" -> undo(h, FALSE)
             [] c.op = "redo" -> redo(h, FALSE)
             [] OTHER -> [hook |-> reset(h, FALSE), ret |-> c.res]
  IN [hook |-> [RunQueue(r.hook, r.hook.queue) EXCEPT !.queue = <<>>], ret |-> r.ret]

RECURSIVE Replayed(_, _)
\* the calls of log made one per render from hook h on: the hook at the
\* end, and whether every call returned what the log says it returned
Replayed(h, log) ==
  IF log = <<>> THEN [hook |-> h, same |-> TRUE]
  ELSE LET r == OnePerRender(h, Head(log))
           rest == Replayed(r.hook, Tail(log))
       IN [hook |-> rest.hook, same |-> (r.ret = Head(log).res /\ rest.same)]

\* push, undo and redo calls have been made and rendered
PushUndoRedoRendered ==
  /\ Settled
  /\ calls # <<>>
  /\ \A i \in 1..Len(calls) : calls[i].op \in {"push", "undo", "redo"}

\* C26: once push, undo and redo calls are rendered, state and both stacks
\* are what the same calls made one per render leave, and every call has
\* returned what it returns then, whichever calls shared a batch.
C26_BatchLikeOnePerRender ==
  PushUndoRedoRendered =>
    LET r == Replayed(useHistory(hist.initialState, hist.maxDepth), calls) IN
    /\ r.same
    /\ hist.state = r.hook.state
    /\ hist.undoStack = r.hook.undoStack
    /\ hist.redoStack = r.hook.redoStack

(***************************************************************************)
(* C29: the source indices of the points lttbDownsample returns             *)
(***************************************************************************)
\* every index is inside [startIdx, endIdx) and the indices increase
\* strictly
IncreasingInWindow ==
  /\ \A k \in 1..Len(res.points) :
       arg.startIdx <= res.points[k].index /\ res.points[k].index < arg.endIdx
  /\ \A k \in 1..(Len(res.points) - 1) : res.points[k].index < res.points[k + 1].index

\* the first sample of interior bucket b, of targetCount - 2 buckets that
\* share the WindowSize - 2 interior samples
BucketFrom(b) ==
  arg.startIdx + 1 + ((b * (WindowSize - 2)) \div (arg.targetCount - 2))

\* with interior buckets, bucket b is non-empty and point b + 2 of the
\* result is a sample of it
OnePerBucket ==
  (arg.targetCount >= 3 /\ WindowSize > arg.targetCount) =>
    \A b \in 0..(arg.targetCount - 3) :
      /\ BucketFrom(b) < BucketFrom(b + 1)
      /\ BucketFrom(b) <= res.points[b + 2].index
      /\ res.points[b + 2].index < BucketFrom(b + 1)

\* C29 as stated: every point returned has its source index inside
\* [startIdx, endIdx), the indices increase strictly, and every interior
\* bucket gives one sample of its own.
C29_IncreasingInsideWindow ==
  LttbDone => (IncreasingInWindow /\ OnePerBucket)

\* C29 amended: the same for every targetCount >= 1.
C29_TargetCountAtLeast1 ==
  (LttbDone /\ arg.targetCount >= 1) => (IncreasingInWindow /\ OnePerBucket)

\* a window of 5 samples inside the arrays reduced to 4 points
C29_Witness ==
  /\ LttbDone /\ arg.targetCount = 4 /\ arg.startIdx = 1 /\ arg.endIdx = 6
  /\ Len(res.points) = 4
  /\ res.points[2].index = 2
  /\ res.points[3].index \in {3, 4}

(***************************************************************************)
(* C30: a single spike is kept                                              *)
(***************************************************************************)
\* the samples of the window that differ from the first sample of the
\* arrays or, when that one is the spike, from the last
Spikes ==
  LET base == IF At(arg.y, 0) = At(arg.y, 1) THEN At(arg.y, 0) ELSE At(arg.y, Len(arg.y) - 1)
  IN {i \in arg.startIdx..(arg.endIdx - 1) : At(arg.y, i) # base}

\* C30: with targetCount >= 3 and a window of more than targetCount
\* samples whose y is constant but for one sample, that sample is among the
\* points returned, wherever in the window it lies.
C30_SpikeKept ==
  (LttbDone /\ arg.targetCount >= 3 /\ WindowSize > arg.targetCount /\ Cardinality(Spikes) = 1) =>
    \E k \in 1..Len(res.points) : res.points[k].index \in Spikes

====
